---- MODULE Spec2Model ----
(***************************************************************************)
(* State-machine model of the Tetris game engine: the tetromino catalog    *)
(* (tetromino.js), the board functions (game.js) and the Game class        *)
(* (main.js).  Boards and shape matrices are functions over 0-based        *)
(* indices, as the JavaScript arrays are.                                  *)
(***************************************************************************)
EXTENDS Integers, Sequences, FiniteSets, TLC

VARIABLES
  board,             \* Game.board: 20 rows of 10 cells
  currentTetromino,  \* Game.currentTetromino (NULL when absent)
  score,             \* Game.score
  level,             \* Game.level
  lines,             \* Game.lines
  gameOver,          \* Game.gameOver
  paused,            \* Game.paused
  dropInterval,      \* Game.dropInterval
  lastDropTime,      \* Game.lastDropTime
  locked,            \* pieces locked into the board since the last (re)initialisation
  input,             \* arguments drawn for the calls of the pure-function specifications
  call               \* the last call made: its name, its arguments and what it returned

vars == <<board, currentTetromino, score, level, lines, gameOver, paused,
          dropInterval, lastDropTime, locked, input, call>>

gameVars == <<board, currentTetromino, score, level, lines, gameOver, paused,
              dropInterval, lastDropTime>>

----------------------------------------------------------------------------
(* Constants of the program *)

BOARD_WIDTH == 10

BOARD_HEIGHT == 20

types == <<"I", "O", "T", "S", "Z", "J", "L">>

Types == {types[i] : i \in 1..Len(types)}

----------------------------------------------------------------------------
(* JavaScript arrays are functions over 0..(length - 1) *)

Arr(seq) == [i \in 0..(Len(seq) - 1) |-> seq[i + 1]]

Mat(rows) == [r \in 0..(Len(rows) - 1) |-> Arr(rows[r + 1])]

length(a) == Cardinality(DOMAIN a)

\* null / undefined where a shape matrix is expected: not an array
NullShape == [i \in {-1} |-> <<>>]

----------------------------------------------------------------------------
(* tetromino.js: the catalog *)

TETROMINOS ==
  [I |-> [color |-> "cyan", shapes |-> Arr(<<
            Mat(<< <<0,0,0,0>>, <<1,1,1,1>>, <<0,0,0,0>>, <<0,0,0,0>> >>),
            Mat(<< <<0,0,1,0>>, <<0,0,1,0>>, <<0,0,1,0>>, <<0,0,1,0>> >>),
            Mat(<< <<0,0,0,0>>, <<0,0,0,0>>, <<1,1,1,1>>, <<0,0,0,0>> >>),
            Mat(<< <<0,1,0,0>>, <<0,1,0,0>>, <<0,1,0,0>>, <<0,1,0,0>> >>) >>)],
   O |-> [color |-> "yellow", shapes |-> Arr(<<
            Mat(<< <<1,1>>, <<1,1>> >>),
            Mat(<< <<1,1>>, <<1,1>> >>),
            Mat(<< <<1,1>>, <<1,1>> >>),
            Mat(<< <<1,1>>, <<1,1>> >>) >>)],
   T |-> [color |-> "purple", shapes |-> Arr(<<
            Mat(<< <<0,1,0>>, <<1,1,1>>, <<0,0,0>> >>),
            Mat(<< <<0,1,0>>, <<0,1,1>>, <<0,1,0>> >>),
            Mat(<< <<0,0,0>>, <<1,1,1>>, <<0,1,0>> >>),
            Mat(<< <<0,1,0>>, <<1,1,0>>, <<0,1,0>> >>) >>)],
   S |-> [color |-> "green", shapes |-> Arr(<<
            Mat(<< <<0,1,1>>, <<1,1,0>>, <<0,0,0>> >>),
            Mat(<< <<0,1,0>>, <<0,1,1>>, <<0,0,1>> >>),
            Mat(<< <<0,0,0>>, <<0,1,1>>, <<1,1,0>> >>),
            Mat(<< <<1,0,0>>, <<1,1,0>>, <<0,1,0>> >>) >>)],
   Z |-> [color |-> "red", shapes |-> Arr(<<
            Mat(<< <<1,1,0>>, <<0,1,1>>, <<0,0,0>> >>),
            Mat(<< <<0,0,1>>, <<0,1,1>>, <<0,1,0>> >>),
            Mat(<< <<0,0,0>>, <<1,1,0>>, <<0,1,1>> >>),
            Mat(<< <<0,1,0>>, <<1,1,0>>, <<1,0,0>> >>) >>)],
   J |-> [color |-> "blue", shapes |-> Arr(<<
            Mat(<< <<1,0,0>>, <<1,1,1>>, <<0,0,0>> >>),
            Mat(<< <<0,1,1>>, <<0,1,0>>, <<0,1,0>> >>),
            Mat(<< <<0,0,0>>, <<1,1,1>>, <<0,0,1>> >>),
            Mat(<< <<0,1,0>>, <<0,1,0>>, <<1,1,0>> >>) >>)],
   L |-> [color |-> "orange", shapes |-> Arr(<<
            Mat(<< <<0,0,1>>, <<1,1,1>>, <<0,0,0>> >>),
            Mat(<< <<0,1,0>>, <<0,1,0>>, <<0,1,1>> >>),
            Mat(<< <<0,0,0>>, <<1,1,1>>, <<1,0,0>> >>),
            Mat(<< <<1,1,0>>, <<0,1,0>>, <<0,1,0>> >>) >>)]]

\* Game.currentTetromino = null
NULL == [type |-> "null", shape |-> Arr(<<>>), color |-> "", x |-> 0, y |-> 0, rotation |-> 0]

\* createTetromino placing the piece above the board
createTetrominoAbove(type) ==
  LET t == IF type \in DOMAIN TETROMINOS THEN type ELSE "I"
  IN  [type |-> t,
       shape |-> TETROMINOS[t].shapes[0],
       color |-> TETROMINOS[t].color,
       x |-> 4,
       y |-> -2,
       rotation |-> 0]

\* TETROMINOS is an object literal: besides its own seven keys, a lookup finds the
\* properties it inherits from Object.prototype, none of which has shapes
ObjectPrototype ==
  {"constructor", "toString", "toLocaleString", "valueOf", "hasOwnProperty",
   "isPrototypeOf", "propertyIsEnumerable", "__proto__"}

\* a TypeError thrown where a tetromino was to be returned
TypeError ==
  [type |-> "TypeError", shape |-> Arr(<<>>), color |-> "", x |-> 0, y |-> 0, rotation |-> 0]

createTetromino(type) ==
  LET t == IF type \in DOMAIN TETROMINOS \cup ObjectPrototype THEN type ELSE "I"
  IN  IF t \in DOMAIN TETROMINOS
      THEN [type |-> t,
            shape |-> TETROMINOS[t].shapes[0],
            color |-> TETROMINOS[t].color,
            x |-> 4,
            y |-> 0,
            rotation |-> 0]
      ELSE TypeError

\* moveTetromino and rotateTetromino give the tetromino they return (newTetromino)
\* and the argument as the call leaves it (tetromino)
moveTetromino(tetromino, direction) ==
  LET newTetromino ==
        CASE direction = "left" -> [tetromino EXCEPT !.x = @ - 1]
          [] direction = "right" -> [tetromino EXCEPT !.x = @ + 1]
          [] direction = "down" -> [tetromino EXCEPT !.y = @ + 1]
          [] OTHER -> tetromino
  IN  [tetromino |-> tetromino, newTetromino |-> newTetromino]

\* rotateTetromino that turns the copy and leaves it the shape it had
rotateTetrominoStaleShape(tetromino, direction) ==
  LET newRotation ==
        CASE direction \in {"right", "undefined"} -> (tetromino.rotation + 1) % 4
          [] direction = "left" -> (tetromino.rotation + 3) % 4
          [] OTHER -> tetromino.rotation
  IN  [tetromino |-> tetromino,
       newTetromino |-> [tetromino EXCEPT !.rotation = newRotation]]

\* the direction defaults to 'right' when it is not given
rotateTetromino(tetromino, direction) ==
  LET newRotation ==
        CASE direction \in {"right", "undefined"} -> (tetromino.rotation + 1) % 4
          [] direction = "left" -> (tetromino.rotation + 3) % 4
          [] OTHER -> tetromino.rotation
  IN  [tetromino |-> tetromino,
       newTetromino |-> [tetromino EXCEPT
                           !.rotation = newRotation,
                           !.shape = TETROMINOS[tetromino.type].shapes[newRotation]]]

----------------------------------------------------------------------------
(* game.js: the board functions *)

createEmptyBoard(width, height) == [r \in 0..(height - 1) |-> [c \in 0..(width - 1) |-> 0]]

\* checkCollision taking a cell above the board for a collision
checkCollisionAbove(b, shape, x, y, offsetX, offsetY) ==
  IF shape = NullShape \/ DOMAIN shape = {} THEN FALSE
  ELSE \E row \in DOMAIN shape : \E col \in DOMAIN shape[row] :
         /\ shape[row][col] # 0
         /\ LET newX == x + col + offsetX
                newY == y + row + offsetY
            IN  \/ (newX < 0 \/ newX >= BOARD_WIDTH \/ newY >= BOARD_HEIGHT \/ newY < 0)
                \/ b[newY][newX] # 0

\* The loops return true at the first filled cell of the shape that collides, and
\* false when they end: true exactly when some filled cell collides.
checkCollision(b, shape, x, y, offsetX, offsetY) ==
  IF shape = NullShape \/ DOMAIN shape = {} THEN FALSE
  ELSE LET width == length(b[0])
           height == length(b)
       IN  \E row \in DOMAIN shape : \E col \in DOMAIN shape[row] :
             /\ shape[row][col] # 0
             /\ LET newX == x + col + offsetX
                    newY == y + row + offsetY
                IN  \/ (newX < 0 \/ newX >= width \/ newY >= height)
                    \/ (newY >= 0 /\ b[newY][newX] # 0)

\* the row loop of checkFullLines from row on; fullLines is the list built so far
RECURSIVE fullLinesFrom(_, _, _)
fullLinesFrom(b, row, fullLines) ==
  IF row >= length(b) THEN fullLines
  ELSE LET isFull == \A col \in DOMAIN b[row] : b[row][col] # 0
       IN  fullLinesFrom(b, row + 1, IF isFull THEN Append(fullLines, row) ELSE fullLines)

\* checkFullLines starting its loop below the top row
checkFullLinesBelowTop(b) == fullLinesFrom(b, 1, <<>>)

\* the list of full rows, a sequence
checkFullLines(b) == fullLinesFrom(b, 0, <<>>)

\* clearLines: the loop over the list lineIndices from its i-th element on
RECURSIVE clearLinesFrom(_, _, _)
clearLinesFrom(b, lineIndices, i) ==
  IF i > Len(lineIndices) THEN b
  ELSE clearLinesFrom([b EXCEPT ![lineIndices[i]] = [col \in DOMAIN b[lineIndices[i]] |-> 0]],
                      lineIndices, i + 1)

\* clearLines clearing the first listed row only
clearLinesFirst(b, lineIndices) ==
  clearLinesFrom(b, SubSeq(lineIndices, 1, IF Len(lineIndices) = 0 THEN 0 ELSE 1), 1)

clearLines(b, lineIndices) == clearLinesFrom(b, lineIndices, 1)

\* dropLinesDown: the copy loop, reading upwards from readRow and writing at writeRow;
\* returns the board and the final writeRow
RECURSIVE dropCopy(_, _, _, _)
dropCopy(b, clearedSet, readRow, writeRow) ==
  IF readRow < 0 THEN [board |-> b, writeRow |-> writeRow]
  ELSE IF readRow \notin clearedSet
       THEN dropCopy(IF writeRow # readRow THEN [b EXCEPT ![writeRow] = b[readRow]] ELSE b,
                     clearedSet, readRow - 1, writeRow - 1)
  ELSE dropCopy(b, clearedSet, readRow - 1, writeRow)

\* dropLinesDown moving every row above the lowest cleared row down by the number of
\* cleared rows
dropLinesDownTogether(b, clearedLineIndices) ==
  IF Len(clearedLineIndices) = 0 THEN b
  ELSE LET clearedSet == {clearedLineIndices[i] : i \in 1..Len(clearedLineIndices)}
           n == Cardinality(clearedSet)
           lowest == CHOOSE c \in clearedSet : \A d \in clearedSet : d <= c
       IN  [row \in DOMAIN b |->
              IF row > lowest THEN b[row]
              ELSE IF row - n >= 0 THEN b[row - n]
              ELSE [col \in DOMAIN b[row] |-> 0]]

dropLinesDown(b, clearedLineIndices) ==
  IF Len(clearedLineIndices) = 0 THEN b
  ELSE LET clearedSet == {clearedLineIndices[i] : i \in 1..Len(clearedLineIndices)}
           copied == dropCopy(b, clearedSet, length(b) - 1, length(b) - 1)
       IN  [row \in DOMAIN b |->
              IF row <= copied.writeRow THEN [col \in DOMAIN b[row] |-> 0]
              ELSE copied.board[row]]

\* calculateScore without the level multiplier
calculateScoreFlat(linesCleared, lv) ==
  IF lv <= 0 \/ linesCleared < 0 \/ linesCleared > 4 THEN 0
  ELSE LET baseScores == [n \in 0..4 |-> CASE n = 0 -> 0
                                           [] n = 1 -> 100
                                           [] n = 2 -> 300
                                           [] n = 3 -> 500
                                           [] n = 4 -> 800]
       IN  baseScores[linesCleared]

\* calculateScore that knows the single line only
calculateScoreSingles(linesCleared, lv) ==
  IF lv <= 0 \/ linesCleared # 1 THEN 0 ELSE 100 * lv

calculateScore(linesCleared, lv) ==
  IF lv <= 0 \/ linesCleared < 0 \/ linesCleared > 4 THEN 0
  ELSE LET baseScores == [n \in 0..4 |-> CASE n = 0 -> 0
                                           [] n = 1 -> 100
                                           [] n = 2 -> 300
                                           [] n = 3 -> 500
                                           [] n = 4 -> 800]
       IN  baseScores[linesCleared] * lv

----------------------------------------------------------------------------
(* main.js: the Game class.  A game is the record of its fields; every method *)
(* is an operator from the game (and its arguments) to the game it leaves.    *)

\* a JavaScript argument of addScore: a number, or a value of another type
Num(n) == [type |-> "number", value |-> n]

NotNum(t) == [type |-> t, value |-> 0]

initializeGameState ==
  [score |-> 0,
   level |-> 1,
   lines |-> 0,
   gameOver |-> FALSE,
   paused |-> FALSE,
   board |-> createEmptyBoard(BOARD_WIDTH, BOARD_HEIGHT),
   currentTetromino |-> NULL,
   lastDropTime |-> 0,
   dropInterval |-> 1000,
   locked |-> 0]    \* bookkeeping: no piece locked yet

\* getDropInterval without its floor of 100 ms at level 10 and above
getDropIntervalNoFloor(lv) ==
  IF lv <= 1 THEN 1000
  ELSE IF lv = 2 THEN 800
  ELSE IF lv <= 5 THEN 500
  ELSE 500 - ((lv - 5) * 80)

\* getDropInterval interpolating levels 6 to 9 in steps of 100
getDropIntervalSteep(lv) ==
  IF lv <= 1 THEN 1000
  ELSE IF lv = 2 THEN 800
  ELSE IF lv <= 5 THEN 500
  ELSE IF lv >= 10 THEN 100
  ELSE 500 - ((lv - 5) * 100)

getDropInterval(lv) ==
  IF lv <= 1 THEN 1000
  ELSE IF lv = 2 THEN 800
  ELSE IF lv <= 5 THEN 500
  ELSE IF lv >= 10 THEN 100
  ELSE IF lv <= 4 THEN 800 - ((lv - 2) * 100)
  ELSE 500 - ((lv - 5) * 80)

\* updateDropInterval leaving the interval as it is
updateDropIntervalStale(g) == g

updateDropInterval(g) == [g EXCEPT !.dropInterval = getDropInterval(g.level)]

\* addScore validating its first argument only
addScoreChecksPoints(g, points, linesCleared) ==
  IF points.type # "number" \/ points.value < 0 THEN g
  ELSE LET g1 == [g EXCEPT !.score = g.score + points.value,
                           !.lines = g.lines + linesCleared.value]
           newLevel == (g1.lines \div 10) + 1
       IN  IF newLevel > g1.level
           THEN updateDropInterval([g1 EXCEPT !.level = newLevel])
           ELSE g1

\* addScore computing the level without its offset of 1
addScoreLevelOff(g, points, linesCleared) ==
  IF points.type # "number" \/ points.value < 0 THEN g
  ELSE IF linesCleared.type # "number" \/ linesCleared.value < 0 THEN g
  ELSE LET g1 == [g EXCEPT !.score = g.score + points.value,
                           !.lines = g.lines + linesCleared.value]
           newLevel == g1.lines \div 10
       IN  IF newLevel > g1.level
           THEN updateDropInterval([g1 EXCEPT !.level = newLevel])
           ELSE g1

\* addScore recomputing the drop interval on every call
addScoreAlwaysUpdates(g, points, linesCleared) ==
  IF points.type # "number" \/ points.value < 0 THEN g
  ELSE IF linesCleared.type # "number" \/ linesCleared.value < 0 THEN g
  ELSE LET g1 == [g EXCEPT !.score = g.score + points.value,
                           !.lines = g.lines + linesCleared.value]
           newLevel == (g1.lines \div 10) + 1
       IN  [g1 EXCEPT !.level = newLevel, !.dropInterval = 1000 - 20 * g1.lines]

addScore(g, points, linesCleared) ==
  IF points.type # "number" \/ points.value < 0 THEN g
  ELSE IF linesCleared.type # "number" \/ linesCleared.value < 0 THEN g
  ELSE LET g1 == [g EXCEPT !.score = g.score + points.value,
                           !.lines = g.lines + linesCleared.value]
           newLevel == (g1.lines \div 10) + 1
       IN  IF newLevel > g1.level
           THEN updateDropInterval([g1 EXCEPT !.level = newLevel])
           ELSE g1

\* addScore returns nothing; this is whether it rejects its arguments with a
\* console.warn
addScoreWarns(points, linesCleared) ==
  \/ (points.type # "number" \/ points.value < 0)
  \/ (linesCleared.type # "number" \/ linesCleared.value < 0)

\* setGameOver wiping the board when the game ends
setGameOverClearsBoard(g, isGameOver) ==
  [g EXCEPT !.gameOver = isGameOver,
            !.board = IF isGameOver THEN createEmptyBoard(BOARD_WIDTH, BOARD_HEIGHT)
                      ELSE g.board]

\* setGameOver taking the current piece off the board when the game ends
setGameOverDropsPiece(g, isGameOver) ==
  [g EXCEPT !.gameOver = isGameOver,
            !.currentTetromino = IF isGameOver THEN NULL ELSE g.currentTetromino]

setGameOver(g, isGameOver) == [g EXCEPT !.gameOver = isGameOver]

\* togglePause doing nothing once the game is over
togglePauseWhilePlaying(g) == IF g.gameOver THEN g ELSE [g EXCEPT !.paused = ~g.paused]

\* togglePause starting the drop clock afresh
togglePauseRestartsClock(g) == [g EXCEPT !.paused = ~g.paused, !.lastDropTime = 0]

togglePause(g) == [g EXCEPT !.paused = ~g.paused]

\* reset keeping the score of the game it ends
resetKeepsScore == [initializeGameState EXCEPT !.score = score]

reset == initializeGameState

\* shouldDropTetromino with the boundary excluded
shouldDropTetrominoStrict(g, currentTime) ==
  IF g.paused \/ g.gameOver THEN [game |-> g, ret |-> FALSE]
  ELSE IF currentTime - g.lastDropTime <= g.dropInterval THEN [game |-> g, ret |-> FALSE]
  ELSE [game |-> [g EXCEPT !.lastDropTime = currentTime], ret |-> TRUE]

\* returns the game and the value returned
shouldDropTetromino(g, currentTime) ==
  IF g.paused \/ g.gameOver THEN [game |-> g, ret |-> FALSE]
  ELSE IF currentTime - g.lastDropTime < g.dropInterval THEN [game |-> g, ret |-> FALSE]
  ELSE [game |-> [g EXCEPT !.lastDropTime = currentTime], ret |-> TRUE]

\* spawnNewTetromino installing the piece before it checks the collision
spawnNewTetrominoInstalls(g, randomType) ==
  LET newTetromino == createTetromino(randomType)
  IN  IF checkCollision(g.board, newTetromino.shape, newTetromino.x, newTetromino.y, 0, 0)
      THEN [game |-> setGameOver([g EXCEPT !.currentTetromino = newTetromino], TRUE),
            ret |-> FALSE]
      ELSE [game |-> [g EXCEPT !.currentTetromino = newTetromino], ret |-> TRUE]

\* randomType is the type Math.random() selects
\* spawnNewTetromino giving up the piece that collides without ending the game
spawnNewTetrominoKeepsPlaying(g, randomType) ==
  LET newTetromino == createTetromino(randomType)
  IN  IF checkCollision(g.board, newTetromino.shape, newTetromino.x, newTetromino.y, 0, 0)
      THEN [game |-> g, ret |-> FALSE]
      ELSE [game |-> [g EXCEPT !.currentTetromino = newTetromino], ret |-> TRUE]

spawnNewTetromino(g, randomType) ==
  LET newTetromino == createTetromino(randomType)
  IN  IF checkCollision(g.board, newTetromino.shape, newTetromino.x, newTetromino.y, 0, 0)
      THEN [game |-> setGameOver(g, TRUE), ret |-> FALSE]
      ELSE [game |-> [g EXCEPT !.currentTetromino = newTetromino], ret |-> TRUE]

\* getTetrominoColorValue numbering the colours from 0, the value of an empty cell
getTetrominoColorValueFromZero(type) ==
  CASE type = "I" -> 0
    [] type = "O" -> 1
    [] type = "T" -> 2
    [] type = "S" -> 3
    [] type = "Z" -> 4
    [] type = "J" -> 5
    [] type = "L" -> 6
    [] OTHER -> 0

\* getTetrominoColorValue numbering the colours from 2
getTetrominoColorValueFromTwo(type) ==
  CASE type = "I" -> 2
    [] type = "O" -> 3
    [] type = "T" -> 4
    [] type = "S" -> 5
    [] type = "Z" -> 6
    [] type = "J" -> 7
    [] type = "L" -> 8
    [] OTHER -> 2

getTetrominoColorValue(type) ==
  CASE type = "I" -> 1
    [] type = "O" -> 2
    [] type = "T" -> 3
    [] type = "S" -> 4
    [] type = "Z" -> 5
    [] type = "J" -> 6
    [] type = "L" -> 7
    [] OTHER -> 1

\* processLineClearing that finds the full lines and leaves them where they are
processLineClearingKeepsLines(g) ==
  LET fullLines == checkFullLines(g.board)
  IN  IF Len(fullLines) > 0
      THEN addScore(g, Num(calculateScore(Len(fullLines), g.level)), Num(Len(fullLines)))
      ELSE g

\* processLineClearing scoring the lines at the level they lead to
processLineClearingNewLevel(g) ==
  LET fullLines == checkFullLines(g.board)
  IN  IF Len(fullLines) > 0
      THEN LET cleared == clearLines(g.board, fullLines)
               dropped == dropLinesDown(cleared, fullLines)
               counted == addScore([g EXCEPT !.board = dropped], Num(0), Num(Len(fullLines)))
               points == calculateScore(Len(fullLines), counted.level)
           IN  addScore(counted, Num(points), Num(0))
      ELSE g

processLineClearing(g) ==
  LET fullLines == checkFullLines(g.board)
  IN  IF Len(fullLines) > 0
      THEN LET cleared == clearLines(g.board, fullLines)
               dropped == dropLinesDown(cleared, fullLines)
               points == calculateScore(Len(fullLines), g.level)
           IN  addScore([g EXCEPT !.board = dropped], Num(points), Num(Len(fullLines)))
      ELSE g

\* the stamping loops of fixTetrominoToBoard from cell (row, col) of the shape on;
\* a cell outside the board is not written
RECURSIVE stampFrom(_, _, _, _)
stampFrom(b, t, row, col) ==
  IF row >= length(t.shape) THEN b
  ELSE IF col >= length(t.shape[row]) THEN stampFrom(b, t, row + 1, 0)
  ELSE IF t.shape[row][col] # 0
       THEN LET boardX == t.x + col
                boardY == t.y + row
            IN  IF boardY >= 0 /\ boardY < length(b) /\ boardX >= 0 /\ boardX < length(b[0])
                THEN stampFrom([b EXCEPT ![boardY][boardX] = getTetrominoColorValue(t.type)],
                               t, row, col + 1)
                ELSE stampFrom(b, t, row, col + 1)
  ELSE stampFrom(b, t, row, col + 1)

stampTetromino(b, t) == stampFrom(b, t, 0, 0)

\* fixTetrominoToBoard leaving the locked piece as the current one when the spawn
\* fails
fixTetrominoToBoardKeepsPiece(g, randomType) ==
  IF g.currentTetromino = NULL THEN g
  ELSE LET stamped == [g EXCEPT !.board = stampTetromino(g.board, g.currentTetromino),
                                !.locked = g.locked + 1]
           cleared == processLineClearing(stamped)
       IN  spawnNewTetromino(cleared, randomType).game

\* fixTetrominoToBoard spawning the next piece on the board as stamped, before the
\* lines are cleared
fixTetrominoToBoardSpawnsFirst(g, randomType) ==
  IF g.currentTetromino = NULL THEN g
  ELSE LET stamped == [g EXCEPT !.board = stampTetromino(g.board, g.currentTetromino),
                                !.locked = g.locked + 1]
           spawned == spawnNewTetromino([stamped EXCEPT !.currentTetromino = NULL],
                                        randomType).game
       IN  processLineClearing(spawned)

fixTetrominoToBoard(g, randomType) ==
  IF g.currentTetromino = NULL THEN g
  ELSE CHOOSE spawned \in
         {spawnNewTetromino([cleared EXCEPT !.currentTetromino = NULL], randomType).game :
            cleared \in {processLineClearing(stamped) :
              stamped \in {[g EXCEPT !.board = stampTetromino(g.board, g.currentTetromino),
                                     !.locked = g.locked + 1]}}} : TRUE

\* dropCurrentTetromino taking the piece two rows down
dropCurrentTetrominoTwoRows(g, randomType) ==
  IF g.currentTetromino = NULL THEN g
  ELSE LET t == g.currentTetromino
       IN  IF ~checkCollision(g.board, t.shape, t.x, t.y + 1, 0, 0)
           THEN [g EXCEPT !.currentTetromino.y = t.y + 2]
           ELSE fixTetrominoToBoard(g, randomType)

\* dropCurrentTetromino leaving the piece that cannot move where it is, unlocked
dropCurrentTetrominoNoLock(g, randomType) ==
  IF g.currentTetromino = NULL THEN g
  ELSE LET t == g.currentTetromino
       IN  IF ~checkCollision(g.board, t.shape, t.x, t.y + 1, 0, 0)
           THEN [g EXCEPT !.currentTetromino.y = t.y + 1]
           ELSE g

dropCurrentTetromino(g, randomType) ==
  IF g.currentTetromino = NULL THEN g
  ELSE LET t == g.currentTetromino
       IN  IF ~checkCollision(g.board, t.shape, t.x, t.y + 1, 0, 0)
           THEN [g EXCEPT !.currentTetromino.y = t.y + 1]
           ELSE fixTetrominoToBoard(g, randomType)

validateAndFixGameState(g) ==
  LET g1 == IF g.level < 1 THEN [g EXCEPT !.level = 1] ELSE g
      g2 == IF g1.score < 0 THEN [g1 EXCEPT !.score = 0] ELSE g1
  IN  IF g2.lines < 0 THEN [g2 EXCEPT !.lines = 0] ELSE g2

\* update making up for the drops the elapsed time has missed: a second drop when
\* two intervals have passed
updateCatchesUp(g, currentTime, randomType) ==
  LET g1 == validateAndFixGameState(g)
  IN  IF g1.paused \/ g1.gameOver THEN g1
      ELSE IF g1.currentTetromino = NULL THEN spawnNewTetromino(g1, randomType).game
      ELSE LET should == shouldDropTetromino(g1, currentTime)
               dropped == dropCurrentTetromino(should.game, randomType)
           IN  IF ~should.ret THEN should.game
               ELSE IF currentTime - g1.lastDropTime >= 2 * g1.dropInterval
               THEN dropCurrentTetromino(dropped, randomType)
               ELSE dropped

update(g, currentTime, randomType) ==
  LET g1 == validateAndFixGameState(g)
  IN  IF g1.paused \/ g1.gameOver THEN g1
      ELSE IF g1.currentTetromino = NULL THEN spawnNewTetromino(g1, randomType).game
      ELSE LET should == shouldDropTetromino(g1, currentTime)
           IN  IF should.ret THEN dropCurrentTetromino(should.game, randomType)
               ELSE should.game

\* render drawing nothing once the game is over
renderWhilePlaying(g, faulty) ==
  IF g.paused \/ g.gameOver
  THEN [game |-> g, calls |-> <<>>, caught |-> FALSE, thrown |-> FALSE]
  ELSE [game |-> g,
        calls |-> <<"clear", "drawBoard">>
                  \o (IF g.currentTetromino # NULL THEN <<"drawTetromino">> ELSE <<>>),
        caught |-> FALSE,
        thrown |-> FALSE]

\* render pausing the game when the renderer throws, as update does on an error
renderPausesOnError(g, faulty) ==
  IF g.paused THEN [game |-> g, calls |-> <<>>, caught |-> FALSE, thrown |-> FALSE]
  ELSE LET wanted == <<"clear", "drawBoard">>
                     \o (IF g.currentTetromino # NULL THEN <<"drawTetromino">> ELSE <<>>)
           throwing == {i \in 1..Len(wanted) : wanted[i] = faulty}
           made == IF throwing = {} THEN wanted
                   ELSE SubSeq(wanted, 1, CHOOSE i \in throwing : TRUE)
       IN  [game |-> [g EXCEPT !.paused = (throwing # {})],
            calls |-> made, caught |-> throwing # {}, thrown |-> FALSE]

\* render() with a renderer whose method faulty throws ("none": no method throws).
\* calls are the calls made on the renderer, in order, the throwing one last; caught
\* is whether the catch block ran; thrown is whether render() let the error out
render(g, faulty) ==
  IF g.paused THEN [game |-> g, calls |-> <<>>, caught |-> FALSE, thrown |-> FALSE]
  ELSE LET wanted == <<"clear", "drawBoard">>
                     \o (IF g.currentTetromino # NULL THEN <<"drawTetromino">> ELSE <<>>)
           throwing == {i \in 1..Len(wanted) : wanted[i] = faulty}
           made == IF throwing = {} THEN wanted
                   ELSE SubSeq(wanted, 1, CHOOSE i \in throwing : TRUE)
       IN  [game |-> g, calls |-> made, caught |-> throwing # {}, thrown |-> FALSE]

getGameState(g) ==
  [score |-> g.score,
   level |-> g.level,
   lines |-> g.lines,
   gameOver |-> g.gameOver,
   paused |-> g.paused,
   hasCurrentTetromino |-> g.currentTetromino # NULL,
   dropInterval |-> g.dropInterval,
   lastDropTime |-> g.lastDropTime]

----------------------------------------------------------------------------
(* The state machine of one Game object *)

\* Bounds of the model.  A run follows either the fall of the pieces (at most
\* MaxLocks locks since the last initialisation, the score in coarse steps) or the
\* scoring (lines up to MaxScoreLines in fine steps, every piece left at its spawn row).
MaxLocks == 1

MaxLines == 10

MaxScore == 100

\* the locks followed when nobody plays: more than a board can take
MaxIdleLocks == 20

MaxScoreLines == 100

MaxScorePoints == 200

\* the lines and the score followed when the locks are set up by the caller
MaxLockLines == 13

MaxLockScore == 800

\* the times the host passes to update() and shouldDropTetromino()
Times == {0, 999, 1000}

Follows(part) == input.op = part

bounds ==
  IF Follows("scoring")
  THEN [locks |-> 0, lines |-> MaxScoreLines, score |-> MaxScorePoints]
  ELSE IF Follows("lock")
  THEN [locks |-> MaxLocks, lines |-> MaxLockLines, score |-> MaxLockScore]
  ELSE IF Follows("stack")
  THEN [locks |-> input.locks, lines |-> MaxLines, score |-> MaxLockScore]
  ELSE IF Follows("idle")
  THEN [locks |-> MaxIdleLocks, lines |-> MaxLines, score |-> MaxScore]
  ELSE [locks |-> MaxLocks, lines |-> MaxLines, score |-> MaxScore]

\* the arguments addScore() is called with
PointsArgs ==
  IF Follows("scoring") THEN {Num(0), Num(100), Num(-1), NotNum("string")} ELSE {Num(100)}

LinesArgs ==
  IF Follows("scoring") THEN {Num(0), Num(1), Num(4), Num(-1), NotNum("undefined")} ELSE {Num(10)}

\* what a method that returns nothing leaves in call
NoReturn == [op |-> "none", ret |-> FALSE]

\* the game the variables hold
Game ==
  [score |-> score,
   level |-> level,
   lines |-> lines,
   gameOver |-> gameOver,
   paused |-> paused,
   board |-> board,
   currentTetromino |-> currentTetromino,
   lastDropTime |-> lastDropTime,
   dropInterval |-> dropInterval,
   locked |-> locked]

\* game g is within the bounds of the model; once the last lock followed is made,
\* the next piece is left at its spawn row, and on a stack at its spawn cell
WithinBounds(g) ==
  /\ g.locked <= bounds.locks
  /\ g.lines <= bounds.lines
  /\ g.score <= bounds.score
  /\ (g.locked = bounds.locks => g.currentTetromino.y = 0)
  /\ ((Follows("stack") \/ Follows("descent")) /\ g.locked = bounds.locks
        /\ g.currentTetromino # NULL)
       => g.currentTetromino.x = 4

\* the variables take the fields of the game
Becomes(game) ==
  \E g \in {game} :
    /\ WithinBounds(g)
    /\ board' = g.board
    /\ currentTetromino' = g.currentTetromino
    /\ score' = g.score
    /\ level' = g.level
    /\ lines' = g.lines
    /\ gameOver' = g.gameOver
    /\ paused' = g.paused
    /\ dropInterval' = g.dropInterval
    /\ lastDropTime' = g.lastDropTime
    /\ locked' = g.locked

\* the method op returned ret
Returned(op, ret) == call' = [op |-> op, ret |-> ret]

\* the variables hold game g
Holds(g) ==
  /\ board = g.board
  /\ currentTetromino = g.currentTetromino
  /\ score = g.score
  /\ level = g.level
  /\ lines = g.lines
  /\ gameOver = g.gameOver
  /\ paused = g.paused
  /\ dropInterval = g.dropInterval
  /\ lastDropTime = g.lastDropTime
  /\ locked = g.locked

\* new Game(renderer)
Init ==
  /\ Holds(initializeGameState)
  /\ input = [op |-> "fall"]
  /\ call = NoReturn

InitScore ==
  /\ Holds(initializeGameState)
  /\ input = [op |-> "scoring"]
  /\ call = NoReturn

UpdateAt(currentTime) ==
  \E updated \in {update(Game, currentTime, randomType) : randomType \in Types} :
    /\ Becomes(updated)
    /\ call' = NoReturn
    /\ UNCHANGED input

Update == \E currentTime \in Times : UpdateAt(currentTime)

\* the renderer methods that throw in a run: none, unless the run follows the
\* rendering with a faulty renderer
Faults ==
  IF Follows("render") THEN {"none", "clear", "drawBoard", "drawTetromino"} ELSE {"none"}

Render ==
  \E faulty \in Faults :
    LET rendered == render(Game, faulty)
    IN  /\ Becomes(rendered.game)
        /\ Returned("render", [calls |-> rendered.calls, caught |-> rendered.caught,
                               thrown |-> rendered.thrown])
        /\ UNCHANGED input

TogglePause ==
  /\ Becomes(togglePause(Game))
  /\ Returned("togglePause", togglePause(Game).paused)
  /\ UNCHANGED input

SetGameOverTo(isGameOver) ==
  /\ Becomes(setGameOver(Game, isGameOver))
  /\ call' = NoReturn
  /\ UNCHANGED input

SetGameOver == \E isGameOver \in BOOLEAN : SetGameOverTo(isGameOver)

\* reset() returns nothing; call keeps its name, which tells the state it leaves from
\* the state the constructor leaves
Reset ==
  /\ Becomes(reset)
  /\ Returned("reset", FALSE)
  /\ UNCHANGED input

\* call records whether addScore warned of an invalid argument
AddScoreOf(points, linesCleared) ==
  /\ Becomes(addScore(Game, points, linesCleared))
  /\ Returned("addScore", addScoreWarns(points, linesCleared))
  /\ UNCHANGED input

AddScore == \E points \in PointsArgs, linesCleared \in LinesArgs : AddScoreOf(points, linesCleared)

UpdateDropInterval ==
  /\ Becomes(updateDropInterval(Game))
  /\ call' = NoReturn
  /\ UNCHANGED input

ShouldDropTetrominoAt(currentTime) ==
  LET r == shouldDropTetromino(Game, currentTime)
  IN  /\ Becomes(r.game)
      /\ Returned("shouldDropTetromino", r.ret)
      /\ UNCHANGED input

ShouldDropTetromino == \E currentTime \in Times : ShouldDropTetrominoAt(currentTime)

SpawnNewTetromino ==
  \E randomType \in Types :
    LET r == spawnNewTetromino(Game, randomType)
    IN  /\ Becomes(r.game)
        /\ Returned("spawnNewTetromino", r.ret)
        /\ UNCHANGED input

DropCurrentTetromino ==
  \E dropped \in {dropCurrentTetromino(Game, randomType) : randomType \in Types} :
    /\ Becomes(dropped)
    /\ call' = NoReturn
    /\ UNCHANGED input

Next ==
  \/ Update
  \/ Render
  \/ TogglePause
  \/ SetGameOver
  \/ Reset
  \/ AddScore
  \/ UpdateDropInterval
  \/ ShouldDropTetromino
  \/ SpawnNewTetromino
  \/ DropCurrentTetromino

\* the game from its construction, the fall of the pieces followed
Spec == Init /\ [][Next]_vars

\* the methods that run while the scoring is followed
NextScore ==
  \/ Update
  \/ TogglePause
  \/ SetGameOver
  \/ Reset
  \/ AddScore
  \/ UpdateDropInterval
  \/ SpawnNewTetromino
  \/ DropCurrentTetromino

\* the game from its construction, the scoring followed
SpecScore == InitScore /\ [][NextScore]_vars

----------------------------------------------------------------------------
(* getDropInterval() and updateDropInterval() at a level the caller has set, *)
(* as the tests set game.level                                               *)

MaxLevel == 60

Levels == (-3)..MaxLevel

InitInterval ==
  /\ \E lv \in Levels : Holds([initializeGameState EXCEPT !.level = lv])
  /\ input = [op |-> "interval"]
  /\ call = NoReturn

GetDropInterval ==
  /\ Returned("getDropInterval", getDropInterval(level))
  /\ UNCHANGED <<gameVars, locked, input>>

NextInterval ==
  \/ GetDropInterval
  \/ UpdateDropInterval

SpecInterval == InitInterval /\ [][NextInterval]_vars

----------------------------------------------------------------------------
(* checkCollision() on drawn boards, shapes, positions and offsets *)

\* a board with the given cells occupied; cells is a set of <<row, col, value>>
boardWith(cells) ==
  [row \in 0..(BOARD_HEIGHT - 1) |-> [col \in 0..(BOARD_WIDTH - 1) |->
     IF \E v \in 1..7 : <<row, col, v>> \in cells
     THEN CHOOSE v \in 1..7 : <<row, col, v>> \in cells
     ELSE 0]]

CollisionBoards ==
  { createEmptyBoard(BOARD_WIDTH, BOARD_HEIGHT),
    boardWith({<<19, c, 1>> : c \in 0..9}),
    boardWith({<<0, 5, 3>>, <<1, 4, 2>>, <<18, 0, 7>>, <<19, 9, 6>>, <<10, 5, 4>>}) }

CollisionShapes ==
  {TETROMINOS[t].shapes[0] : t \in Types}
    \cup {TETROMINOS["I"].shapes[1], TETROMINOS["L"].shapes[3], NullShape, Arr(<<>>)}

\* how far outside the board the drawn positions reach
MaxOutside == 2

CollisionXs == {x \in (-MaxOutside)..(BOARD_WIDTH - 1 + MaxOutside) : x <= 1 \/ x >= 4}

CollisionYs == {y \in (-MaxOutside - 1)..(BOARD_HEIGHT - 1 + MaxOutside) : y <= 1 \/ y >= 9}

CollisionOffsets == {<<0, 0>>, <<-1, 0>>, <<1, 0>>, <<0, 1>>}

InitCollision ==
  /\ \E b \in CollisionBoards : Holds([initializeGameState EXCEPT !.board = b])
  /\ \E shape \in CollisionShapes, x \in CollisionXs, y \in CollisionYs,
        offset \in CollisionOffsets :
       input = [op |-> "checkCollision", shape |-> shape, x |-> x, y |-> y,
                offsetX |-> offset[1], offsetY |-> offset[2]]
  /\ call = NoReturn

CheckCollision ==
  /\ Follows("checkCollision")
  /\ Returned("checkCollision",
              checkCollision(board, input.shape, input.x, input.y, input.offsetX, input.offsetY))
  /\ UNCHANGED <<gameVars, locked, input>>

NextCollision == CheckCollision

SpecCollision == InitCollision /\ [][NextCollision]_vars

----------------------------------------------------------------------------
(* checkFullLines(), clearLines() and dropLinesDown() on drawn boards and row lists *)

\* every row different from the others: rows 9 and 19 full, row 0 with one cell
patternBoard ==
  [row \in 0..(BOARD_HEIGHT - 1) |-> [col \in 0..(BOARD_WIDTH - 1) |->
     IF col <= row % 10 THEN ((row + col) % 7) + 1 ELSE 0]]

\* a stack as play leaves it: rows 17 and 19 full, row 18 and row 16 partly filled
stackBoard ==
  boardWith({<<19, c, 1>> : c \in 0..9} \cup {<<18, c, 2>> : c \in 0..5}
            \cup {<<17, c, 3>> : c \in 0..9} \cup {<<16, c, 4>> : c \in {0, 1, 8}})

fullBoard == [row \in 0..(BOARD_HEIGHT - 1) |-> [col \in 0..(BOARD_WIDTH - 1) |-> 5]]

LineBoards == {patternBoard, stackBoard, fullBoard, createEmptyBoard(BOARD_WIDTH, BOARD_HEIGHT)}

\* the rows the drawn lists name, and the longest list
LineRows == {0, 1, 9, 17, 18, 19}

MaxCleared == 3

RECURSIVE listsOver(_, _)
\* the lists of at most n different elements of set rows
listsOver(rows, n) ==
  IF n = 0 THEN {<<>>}
  ELSE LET shorter == listsOver(rows, n - 1)
       IN  shorter \cup {Append(l, r) : l \in shorter, r \in rows}

LineLists ==
  {l \in listsOver(LineRows, MaxCleared) : \A i, j \in 1..Len(l) : i # j => l[i] # l[j]}

InitLines ==
  /\ \E b \in LineBoards :
       /\ Holds([initializeGameState EXCEPT !.board = b])
       /\ \E l \in LineLists :
            input = [op |-> "lines", board |-> b, rows |-> l, applied |-> <<>>]
  /\ call = NoReturn

CheckFullLines ==
  /\ Follows("lines")
  /\ Returned("checkFullLines", checkFullLines(board))
  /\ UNCHANGED <<gameVars, locked, input>>

ClearLines ==
  /\ Follows("lines")
  /\ input.applied = <<>>
  /\ board' = clearLines(board, input.rows)
  /\ input' = [input EXCEPT !.applied = Append(@, "clearLines")]
  /\ call' = NoReturn
  /\ UNCHANGED <<currentTetromino, score, level, lines, gameOver, paused,
                 dropInterval, lastDropTime, locked>>

DropLinesDown ==
  /\ Follows("lines")
  /\ Len(input.applied) <= 1
  /\ "dropLinesDown" \notin {input.applied[i] : i \in 1..Len(input.applied)}
  /\ board' = dropLinesDown(board, input.rows)
  /\ input' = [input EXCEPT !.applied = Append(@, "dropLinesDown")]
  /\ call' = NoReturn
  /\ UNCHANGED <<currentTetromino, score, level, lines, gameOver, paused,
                 dropInterval, lastDropTime, locked>>

NextLines ==
  \/ CheckFullLines
  \/ ClearLines
  \/ DropLinesDown

SpecLines == InitLines /\ [][NextLines]_vars

----------------------------------------------------------------------------
(* spawnNewTetromino() on boards the caller has filled, as the tests fill game.board *)

topRowsBoard(v) ==
  [row \in 0..(BOARD_HEIGHT - 1) |-> [col \in 0..(BOARD_WIDTH - 1) |->
     IF row <= 1 THEN v ELSE 0]]

SpawnBoards ==
  {createEmptyBoard(BOARD_WIDTH, BOARD_HEIGHT), topRowsBoard(1), topRowsBoard(7)}
    \cup {boardWith({<<r, c, 1>>}) : r \in 0..2, c \in 3..8}
    \cup {boardWith({<<r, c, 2>> : c \in 0..9}) : r \in 0..2}

InitSpawn ==
  /\ \E b \in SpawnBoards : Holds([initializeGameState EXCEPT !.board = b])
  /\ input = [op |-> "spawn"]
  /\ call = NoReturn

NextSpawn ==
  \/ SpawnNewTetromino
  \/ TogglePause
  \/ Reset

SpecSpawn == InitSpawn /\ [][NextSpawn]_vars


----------------------------------------------------------------------------
(* render() on a renderer whose methods may throw, as the tests mock them *)

InitRender ==
  /\ Holds(initializeGameState)
  /\ input = [op |-> "render"]
  /\ call = NoReturn

NextRender ==
  \/ Render
  \/ Update
  \/ TogglePause
  \/ SetGameOver
  \/ SpawnNewTetromino

\* the game drawn by a renderer that may fail
SpecRender == InitRender /\ [][NextRender]_vars

----------------------------------------------------------------------------
(* app.js: TetrisApp, the host of the game.  Its handlers are operators from the *)
(* game to the game they leave; the rotations and the hard drop are not          *)
(* implemented and leave the game as it is.                                      *)

\* moveLeft without the collision check
moveLeftUnchecked(g) ==
  IF g.currentTetromino # NULL /\ ~g.paused
  THEN [g EXCEPT !.currentTetromino.x = g.currentTetromino.x - 1]
  ELSE g

moveLeft(g) ==
  IF g.currentTetromino # NULL /\ ~g.paused
  THEN LET tetromino == g.currentTetromino
           newX == tetromino.x - 1
       IN  IF ~checkCollision(g.board, tetromino.shape, newX, tetromino.y, 0, 0)
           THEN [g EXCEPT !.currentTetromino.x = newX]
           ELSE g
  ELSE g

moveRight(g) ==
  IF g.currentTetromino # NULL /\ ~g.paused
  THEN LET tetromino == g.currentTetromino
           newX == tetromino.x + 1
       IN  IF ~checkCollision(g.board, tetromino.shape, newX, tetromino.y, 0, 0)
           THEN [g EXCEPT !.currentTetromino.x = newX]
           ELSE g
  ELSE g

\* softDrop that does not look at the pause
softDropWhilePaused(g, randomType) ==
  IF g.currentTetromino # NULL
  THEN dropCurrentTetromino(g, randomType)
  ELSE g

softDrop(g, randomType) ==
  IF g.currentTetromino # NULL /\ ~g.paused
  THEN dropCurrentTetromino(g, randomType)
  ELSE g

\* reset() followed by spawnNewTetromino()
restart(g, randomType) == spawnNewTetromino(reset, randomType).game

\* the key codes the handler is given
Codes ==
  {"ArrowLeft", "ArrowRight", "ArrowDown", "ArrowUp", "KeyX", "KeyZ", "Space", "KeyP"}
    \cup (IF Follows("stack") THEN {} ELSE {"KeyR"})

handleKeyDown(g, code, randomType) ==
  IF g.gameOver THEN g
  ELSE CASE code = "ArrowLeft" -> moveLeft(g)
         [] code = "ArrowRight" -> moveRight(g)
         [] code = "ArrowDown" -> softDrop(g, randomType)
         [] code = "KeyP" -> togglePause(g)
         [] code = "KeyR" -> restart(g, randomType)
         [] OTHER -> g

\* one frame: update(performance.now()), then render(), which reads the game only
gameLoop(g, now, randomType) == update(g, now, randomType)

\* a stack whose bottom row lacks the four cells under the spawn columns
gapBoard == boardWith({<<19, c, 3>> : c \in (0..9) \ (4..7)})

HostBoards == {createEmptyBoard(BOARD_WIDTH, BOARD_HEIGHT), gapBoard}

\* init(): the game is constructed and its first piece spawned; the board is empty or
\* holds the stack an earlier part of the play has left
InitHost ==
  /\ \E b \in HostBoards : \E randomType \in Types :
       Holds(spawnNewTetromino([initializeGameState EXCEPT !.board = b], randomType).game)
  /\ input = [op |-> "host"]
  /\ call = NoReturn

\* the handlers discard what the methods of the game return
KeyDown ==
  \E code \in Codes :
    \E handled \in {handleKeyDown(Game, code, randomType) : randomType \in Types} :
      /\ Becomes(handled)
      /\ call' = NoReturn
      /\ UNCHANGED input

ClickPause ==
  /\ Becomes(togglePause(Game))
  /\ call' = NoReturn
  /\ UNCHANGED input

ClickRestart ==
  \E randomType \in Types :
    /\ Becomes(restart(Game, randomType))
    /\ call' = NoReturn
    /\ UNCHANGED input

\* the window loses the focus
Blur ==
  /\ ~paused
  /\ Becomes(togglePause(Game))
  /\ call' = NoReturn
  /\ UNCHANGED input

GameLoop ==
  \E now \in Times :
    \E looped \in {gameLoop(Game, now, randomType) : randomType \in Types} :
      /\ Becomes(looped)
      /\ call' = NoReturn
      /\ UNCHANGED input

NextHost ==
  \/ KeyDown
  \/ ClickPause
  \/ ClickRestart
  \/ Blur
  \/ GameLoop

\* the game as the page runs it
SpecHost == InitHost /\ [][NextHost]_vars

----------------------------------------------------------------------------
(* The keys of the page, each press remembered with the game-over flag it found *)

\* nine O pieces dropped where they spawn
towerBoard == boardWith({<<r, c, 2>> : r \in 2..19, c \in 4..5})

KeyBoards == {createEmptyBoard(BOARD_WIDTH, BOARD_HEIGHT), towerBoard}

\* the keys pressed: soft drop, pause and restart
KeyCodes == {"ArrowDown", "KeyP", "KeyR"}

NoKey == "none"

InitKeys ==
  /\ \E b \in KeyBoards : \E randomType \in Types :
       Holds(spawnNewTetromino([initializeGameState EXCEPT !.board = b], randomType).game)
  /\ input = [op |-> "keys", code |-> NoKey, over |-> FALSE]
  /\ call = NoReturn

PressKey ==
  \E code \in KeyCodes :
    \E handled \in {handleKeyDown(Game, code, randomType) : randomType \in Types} :
      /\ Becomes(handled)
      /\ call' = NoReturn
      /\ input' = [op |-> "keys", code |-> code, over |-> gameOver]

PressRestart ==
  \E randomType \in Types :
    /\ Becomes(restart(Game, randomType))
    /\ call' = NoReturn
    /\ input' = [op |-> "keys", code |-> NoKey, over |-> gameOver]

RunFrame ==
  \E now \in Times :
    \E looped \in {gameLoop(Game, now, randomType) : randomType \in Types} :
      /\ Becomes(looped)
      /\ call' = NoReturn
      /\ input' = [op |-> "keys", code |-> NoKey, over |-> gameOver]

NextKeys ==
  \/ PressKey
  \/ PressRestart
  \/ RunFrame

\* the page under its keys, from the first piece to the end of the game and after
SpecKeys == InitKeys /\ [][NextKeys]_vars

----------------------------------------------------------------------------
(* tetromino.js called by itself, as its tests call it: currentTetromino is the *)
(* tetromino the caller holds, the game takes no part                           *)

MaxShift == 2

\* the types createTetromino is asked for: the seven, strings the catalog lacks,
\* and names every object has
TypeArgs == Types \cup {"INVALID", "", "constructor", "toString"}

MoveDirections == {"left", "right", "down", "invalid"}

RotateDirections == {"right", "left", "undefined", "invalid"}

InitTetromino ==
  /\ Holds(initializeGameState)
  /\ input = [op |-> "tetromino", type |-> "I"]
  /\ call = NoReturn

CreateTetromino ==
  \E type \in TypeArgs :
    /\ currentTetromino' = createTetromino(type)
    /\ Returned("createTetromino", currentTetromino')
    /\ input' = [op |-> "tetromino", type |-> type]
    /\ UNCHANGED <<board, score, level, lines, gameOver, paused, dropInterval,
                   lastDropTime, locked>>

\* the caller goes on with the tetromino the call returned
MoveTetromino ==
  \E direction \in MoveDirections :
    LET moved == moveTetromino(currentTetromino, direction)
    IN  /\ currentTetromino.type \in DOMAIN TETROMINOS
        /\ moved.newTetromino.x \in (4 - MaxShift)..(4 + MaxShift)
        /\ moved.newTetromino.y \in 0..MaxShift
        /\ currentTetromino' = moved.newTetromino
        /\ Returned("moveTetromino", [tetromino |-> moved.tetromino,
                                      given |-> currentTetromino,
                                      direction |-> direction])
        /\ UNCHANGED <<board, score, level, lines, gameOver, paused, dropInterval,
                       lastDropTime, locked, input>>

RotateTetromino ==
  \E direction \in RotateDirections :
    LET rotated == rotateTetromino(currentTetromino, direction)
    IN  /\ currentTetromino.type \in DOMAIN TETROMINOS
        /\ currentTetromino' = rotated.newTetromino
        /\ Returned("rotateTetromino", [tetromino |-> rotated.tetromino,
                                        given |-> currentTetromino,
                                        direction |-> direction])
        /\ UNCHANGED <<board, score, level, lines, gameOver, paused, dropInterval,
                       lastDropTime, locked, input>>

NextTetromino ==
  \/ CreateTetromino
  \/ MoveTetromino
  \/ RotateTetromino

SpecTetromino == InitTetromino /\ [][NextTetromino]_vars

----------------------------------------------------------------------------
(* fixTetrominoToBoard() and processLineClearing() called on a game the caller *)
(* has set up, as the tests set game.board, game.lines and tetromino.y         *)

\* the top of a stack: row 1 lacks the four cells an I piece at its spawn cell
\* fills, over a column of O pieces
brimBoard ==
  boardWith({<<1, c, 3>> : c \in (0..9) \ (4..7)} \cup {<<r, c, 2>> : r \in 2..19, c \in 4..5})

\* k full rows at the floor, under one cell
fullRowsBoard(k) ==
  boardWith({<<r, c, 1>> : r \in (BOARD_HEIGHT - k)..(BOARD_HEIGHT - 1), c \in 0..9}
              \cup {<<BOARD_HEIGHT - k - 1, 0, 7>>})

\* rows 17 and 19 full around a row that is not
splitBoard ==
  boardWith({<<r, c, 5>> : r \in {17, 19}, c \in 0..9}
              \cup {<<18, c, 6>> : c \in 0..4} \cup {<<16, 9, 4>>})

LockBoards ==
  {createEmptyBoard(BOARD_WIDTH, BOARD_HEIGHT), gapBoard, brimBoard, splitBoard}
    \cup {fullRowsBoard(k) : k \in 1..4}

\* no piece, or a piece as created, or one the caller has taken down to row 18
LockPieces ==
  {NULL} \cup {[createTetromino(type) EXCEPT !.y = y] : type \in Types, y \in {0, 18}}

LockLines == {0, 9}

InitLock ==
  /\ \E b \in LockBoards, tetromino \in LockPieces, l \in LockLines :
       LET g == [initializeGameState EXCEPT !.board = b,
                                            !.currentTetromino = tetromino,
                                            !.lines = l]
       IN  /\ tetromino # NULL =>
                ~checkCollision(b, tetromino.shape, tetromino.x, tetromino.y, 0, 0)
           /\ Holds(g)
  /\ input = [op |-> "lock"]
  /\ call = NoReturn

\* both methods return nothing; call keeps the name of the one that ran
FixTetrominoToBoard ==
  \E randomType \in Types :
    /\ Becomes(fixTetrominoToBoard(Game, randomType))
    /\ Returned("fixTetrominoToBoard", FALSE)
    /\ UNCHANGED input

ProcessLineClearing ==
  /\ Becomes(processLineClearing(Game))
  /\ Returned("processLineClearing", FALSE)
  /\ UNCHANGED input

NextLock ==
  \/ FixTetrominoToBoard
  \/ ProcessLineClearing

SpecLock == InitLock /\ [][NextLock]_vars

----------------------------------------------------------------------------
(* The game under the clock of the page: each frame calls update() with a time *)
(* later than the last, and the player pauses and resumes                       *)

MaxNow == 6000

\* the time between two frames: within a drop interval, or several of them
ClockDeltas == {500, 3000}

\* the game is constructed and left to update() to spawn its first piece
InitClock ==
  /\ \E b \in KeyBoards : Holds([initializeGameState EXCEPT !.board = b])
  /\ input = [op |-> "clock", now |-> 0, event |-> "none"]
  /\ call = NoReturn

\* input keeps the time of the frame, and whether it is the first since a resume
TickClock ==
  \E delta \in ClockDeltas :
    LET now == input.now + delta
    IN  /\ now <= MaxNow
        /\ \E updated \in {update(Game, now, randomType) : randomType \in Types} :
             Becomes(updated)
        /\ call' = NoReturn
        /\ input' = [op |-> "clock", now |-> now,
                     event |-> IF input.event = "resume" THEN "resumed update" ELSE "update"]

PauseClock ==
  /\ Becomes(togglePause(Game))
  /\ call' = NoReturn
  /\ input' = [input EXCEPT !.event = IF paused THEN "resume" ELSE "pause"]

NextClock ==
  \/ TickClock
  \/ PauseClock

SpecClock == InitClock /\ [][NextClock]_vars

----------------------------------------------------------------------------
(* The page played on from a stack: the board the pieces locked so far have *)
(* left, with their count, and the piece that follows them                  *)

\* an I piece dropped at the left wall and an O piece at the right wall
rowBoard ==
  boardWith({<<19, c, 1>> : c \in 0..3} \cup {<<r, c, 2>> : r \in 18..19, c \in 8..9})

\* four O pieces dropped side by side from the left wall
wellBoard == boardWith({<<r, c, 2>> : r \in 18..19, c \in 0..7})

Stacks ==
  {[board |-> rowBoard, locked |-> 2],
   [board |-> wellBoard, locked |-> 4],
   [board |-> towerBoard, locked |-> 9]}

\* the last lock has spawned the piece in play; no line has been cleared yet, and the
\* play is followed for MaxLocks more locks
InitStack ==
  \E stack \in Stacks : \E randomType \in Types :
    /\ Holds(spawnNewTetromino([initializeGameState EXCEPT !.board = stack.board,
                                                           !.locked = stack.locked],
                               randomType).game)
    /\ input = [op |-> "stack", locks |-> stack.locked + MaxLocks]
    /\ call = NoReturn

\* the keys, the pause button, the loss of focus and the frames; no restart
NextStack ==
  \/ KeyDown
  \/ ClickPause
  \/ Blur
  \/ GameLoop

SpecStack == InitStack /\ [][NextStack]_vars

----------------------------------------------------------------------------
(* The fall of a piece: the game runs, every frame calls update() with a later *)
(* time, and the player moves the piece left and right                         *)

\* the time by which a piece spawned at time 0 is followed
MaxFallNow == 30000

\* the time between two frames: half a drop interval, so that every second frame
\* finds the interval elapsed
FallDeltas == {500}

InitFall ==
  /\ \E randomType \in Types : Holds(spawnNewTetromino(initializeGameState, randomType).game)
  /\ input = [op |-> "descent", now |-> 0]
  /\ call = NoReturn

\* the frames are followed until the piece is locked
TickFall ==
  \E delta \in FallDeltas :
    LET now == input.now + delta
    IN  /\ now <= MaxFallNow
        /\ locked < bounds.locks
        /\ input' = [input EXCEPT !.now = now]
        /\ call' = NoReturn
        /\ \E updated \in {update(Game, now, randomType) : randomType \in Types} :
             Becomes(updated)

MoveFall ==
  \E code \in {"ArrowLeft", "ArrowRight"} :
    /\ locked < bounds.locks
    /\ \E handled \in {handleKeyDown(Game, code, randomType) : randomType \in Types} :
         Becomes(handled)
    /\ call' = NoReturn
    /\ UNCHANGED input

NextFall ==
  \/ TickFall
  \/ MoveFall

\* requestAnimationFrame keeps calling the game loop: the frames are taken however
\* many keys are pressed between them
SpecFall == InitFall /\ [][NextFall]_vars /\ WF_vars(TickFall)

----------------------------------------------------------------------------
(* Nobody plays: a fresh game, every frame calls update() with a later time, *)
(* and no key is pressed                                                      *)

\* the time by which a game nobody plays is followed
MaxIdleNow == 200000

\* the time between two frames: the drop interval of level 1, so that every frame
\* finds the interval elapsed
IdleDelta == initializeGameState.dropInterval

\* the types Math.random() picks, in turn and again from the first
IdleDraws == [1..2 -> Types]

\* the type picked for the next piece, the pieces before it being the locked
\* ones and the one falling
nextDraw == input.draws[((locked + (IF currentTetromino = NULL THEN 0 ELSE 1)) % 2) + 1]

InitIdle ==
  /\ Holds(initializeGameState)
  /\ \E draws \in IdleDraws : input = [op |-> "idle", now |-> 0, draws |-> draws]
  /\ call = NoReturn

\* the frames are followed until the game is over, when update() returns at once
TickIdle ==
  LET now == input.now + IdleDelta
  IN  /\ now <= MaxIdleNow
      /\ ~gameOver
      /\ input' = [input EXCEPT !.now = now]
      /\ call' = NoReturn
      /\ Becomes(update(Game, now, nextDraw))

NextIdle == TickIdle

\* requestAnimationFrame keeps calling the game loop
SpecIdle == InitIdle /\ [][NextIdle]_vars /\ WF_vars(TickIdle)

----------------------------------------------------------------------------
(* calculateScore on the counts and levels a caller passes *)

MaxCount == 6

MaxMultiplier == 12

\* the numbers of lines passed, from negative to above a Tetris
Counts == (-2)..MaxCount

\* the levels passed, from negative upwards
Multipliers == (-2)..MaxMultiplier

InitPoints ==
  /\ Holds(initializeGameState)
  /\ \E n \in Counts : \E lv \in Multipliers :
       input = [op |-> "calculateScore", linesCleared |-> n, level |-> lv]
  /\ call = NoReturn

CalculateScore ==
  /\ Returned("calculateScore", calculateScore(input.linesCleared, input.level))
  /\ UNCHANGED <<gameVars, locked, input>>

NextPoints == CalculateScore

\* calculateScore applied to a drawn count and level
SpecPoints == InitPoints /\ [][NextPoints]_vars

\* the board cells <<row, column>> under the filled cells of tetromino t
filledCells(t) ==
  {<<t.y + cell[1], t.x + cell[2]>> :
     cell \in {c \in (DOMAIN t.shape) \X (DOMAIN t.shape[0]) : t.shape[c[1]][c[2]] # 0}}

\* the piece of game g, when present, lies on the board over zero cells
collisionFree(g) ==
  g.currentTetromino # NULL =>
    \A cell \in filledCells(g.currentTetromino) :
      /\ cell[1] \in 0..(BOARD_HEIGHT - 1)
      /\ cell[2] \in 0..(BOARD_WIDTH - 1)
      /\ g.board[cell[1]][cell[2]] = 0

\* ---------------------------------------------------------------------------
\* Properties of the game state (Spec, SpecScore)
\* ---------------------------------------------------------------------------

\* C1: once gameOver is true, no operation of Game other than reset() changes a cell
\* of the board or the current tetromino.
C1_GameOverTerminal ==
  [][(gameOver /\ ~Reset) =>
       (board' = board /\ currentTetromino' = currentTetromino)]_vars

\* C2: in every state reached from construction or reset() by operations of Game,
\* level = floor(lines / 10) + 1.
C2_LevelOfLines == level = (lines \div 10) + 1

\* lines have passed a multiple of 10 during play, with a piece on the board
C2_Witness ==
  lines >= 10 /\ level >= 2 /\ score > 0 /\ currentTetromino # NULL

\* C7: addScore with valid arguments adds points to score and linesCleared to lines;
\* level increases exactly when floor(lines / 10) + 1 on the new lines exceeds the
\* previous level; dropInterval changes only on that transition and never increases;
\* lines going from 9 to 10 moves level 1 -> 2 and dropInterval 1000 -> 800.
C7_AddScore ==
  [][call'.op = "addScore" =>
     \A points \in {p \in PointsArgs : p.type = "number" /\ p.value >= 0} :
     \A linesCleared \in {l \in LinesArgs : l.type = "number" /\ l.value >= 0} :
       AddScoreOf(points, linesCleared)
       => /\ score' = score + points.value
          /\ lines' = lines + linesCleared.value
          /\ level' >= level
          /\ (level' > level) <=> ((lines' \div 10) + 1 > level)
          /\ (dropInterval' # dropInterval) => (level' > level)
          /\ dropInterval' <= dropInterval
          /\ (lines = 9 /\ lines' = 10 /\ level = 1 /\ dropInterval = 1000)
               => (level' = 2 /\ dropInterval' = 800)]_vars

\* the tenth line has been added to a score of one single-line clear at level 1
C7_Witness ==
  lines = 10 /\ level = 2 /\ dropInterval = 800 /\ score = 200

\* C8: in every state reached from construction or reset() by operations of Game,
\* dropInterval is the value of getDropInterval() at the current level.
C8_IntervalOfLevel == dropInterval = getDropInterval(level)

\* the level has risen into the interpolated part of the curve
C8_Witness == level = 7 /\ dropInterval = 340 /\ lines >= 60

\* C13: shouldDropTetromino(t) returns true if and only if the game is neither paused
\* nor over and t - lastDropTime >= dropInterval; when it returns true it sets
\* lastDropTime = t, when it returns false it leaves lastDropTime; it changes nothing
\* else.
C13_ShouldDrop ==
  [][call'.op = "shouldDropTetromino" =>
     \A t \in Times :
       ShouldDropTetrominoAt(t) =>
         /\ call'.ret = (~paused /\ ~gameOver /\ t - lastDropTime >= dropInterval)
         /\ call'.ret => lastDropTime' = t
         /\ ~call'.ret => lastDropTime' = lastDropTime
         /\ UNCHANGED <<board, currentTetromino, score, level, lines, gameOver, paused,
                        dropInterval>>]_vars

\* the drop has fallen due exactly at the boundary, t - lastDropTime = dropInterval
C13_Witness ==
  /\ call.op = "shouldDropTetromino"
  /\ call.ret = TRUE
  /\ lastDropTime = dropInterval
  /\ ~paused /\ ~gameOver

\* C14: reset() from any reachable state yields the state of a freshly constructed
\* game: board all zero (10 x 20), score = 0, level = 1, lines = 0, gameOver = false,
\* paused = false, no current tetromino, dropInterval = 1000, lastDropTime = 0.
C14_Reset ==
  call.op = "reset" =>
    /\ board = [row \in 0..19 |-> [col \in 0..9 |-> 0]]
    /\ score = 0
    /\ level = 1
    /\ lines = 0
    /\ gameOver = FALSE
    /\ paused = FALSE
    /\ currentTetromino = NULL
    /\ dropInterval = 1000
    /\ lastDropTime = 0

\* reset() has run and left an empty board without a piece
C14_Witness ==
  /\ call.op = "reset"
  /\ \A row \in DOMAIN board : \A col \in DOMAIN board[row] : board[row][col] = 0
  /\ currentTetromino.type = "null"
  /\ locked = 0

\* C15: once gameOver is true it stays true across update, render, togglePause,
\* spawnNewTetromino, addScore, dropCurrentTetromino and setGameOver(true), and is left
\* only by reset(); setGameOver(true) makes gameOver true from any state and changes
\* no other field.
C15_GameOverStays ==
  [][/\ ( /\ gameOver
          /\ call'.op # "reset"
          /\ ~(call'.op = "none" /\ SetGameOverTo(FALSE)) )
        => gameOver'
     /\ (call'.op = "none" /\ SetGameOverTo(TRUE))
        => /\ gameOver'
           /\ UNCHANGED <<board, currentTetromino, score, level, lines, paused,
                          dropInterval, lastDropTime>>]_vars

\* the game is over while paused, with its piece and its score as they were
C15_Witness ==
  /\ gameOver
  /\ paused
  /\ call.op = "none"
  /\ currentTetromino # NULL
  /\ score > 0

\* C16: addScore(points, linesCleared) with a negative or non-numeric points or
\* linesCleared rejects the call and leaves score, lines, level and dropInterval
\* unchanged, also when only the second argument is invalid.  (call.ret tells the
\* calls made with such an argument, those addScore warns of.)
C16_AddScoreRejects ==
  [][(call'.op = "addScore" /\ call'.ret = TRUE)
       => /\ UNCHANGED <<score, lines, level, dropInterval>>
          /\ \E points \in PointsArgs : \E linesCleared \in LinesArgs :
               /\ \/ points.type # "number"
                  \/ points.value < 0
                  \/ linesCleared.type # "number"
                  \/ linesCleared.value < 0
               /\ AddScoreOf(points, linesCleared)]_vars

\* addScore has rejected a call on a game that holds a score and lines
C16_Witness ==
  /\ call.op = "addScore"
  /\ call.ret = TRUE
  /\ score > 0
  /\ lines > 0

\* C20: togglePause() flips paused and returns the new value; it changes no other
\* field (board, piece, score, lines, level, gameOver, dropInterval, lastDropTime), in
\* any state including GameOver; two consecutive calls restore the original state.
C20_TogglePause ==
  [][call'.op = "togglePause" =>
       /\ paused' = ~paused
       /\ call'.ret = paused'
       /\ UNCHANGED <<board, currentTetromino, score, lines, level, gameOver,
                      dropInterval, lastDropTime>>
       /\ togglePause(togglePause(Game)) = Game]_vars

\* a game that is over, with a piece, has been paused and resumed
C20_Witness ==
  /\ call.op = "togglePause"
  /\ call.ret = FALSE
  /\ ~paused
  /\ gameOver
  /\ currentTetromino # NULL

\* C21: render() makes no renderer call while paused; when not paused (also when the
\* game is over) it calls clear(), then drawBoard(board), then
\* drawTetromino(currentTetromino), the last only if a piece is present; render()
\* changes no field of the game.
C21_Render ==
  [][call'.op = "render" =>
       /\ paused => call'.ret.calls = <<>>
       /\ (~paused /\ currentTetromino = NULL) => call'.ret.calls = <<"clear", "drawBoard">>
       /\ (~paused /\ currentTetromino # NULL)
            => call'.ret.calls = <<"clear", "drawBoard", "drawTetromino">>
       /\ UNCHANGED gameVars]_<<gameVars, call.op>>

\* a game that is over, with its last piece, has been drawn in full
C21_Witness ==
  /\ call.op = "render"
  /\ call.ret.calls = <<"clear", "drawBoard", "drawTetromino">>
  /\ gameOver
  /\ ~paused

\* C28: dropCurrentTetromino() with an active piece: if the position one row below
\* is collision-free, y increases by exactly 1 and the board, x, shape, score, lines
\* and level are unchanged; otherwise the piece is locked into the board at its
\* current (x, y) without moving.  With no active piece it changes nothing.
C28_DropCurrentTetromino ==
  [][(call'.op = "none" /\ DropCurrentTetromino) =>
       IF currentTetromino = NULL THEN UNCHANGED gameVars
       ELSE IF collisionFree([Game EXCEPT !.currentTetromino.y = @ + 1])
       THEN /\ currentTetromino' = [currentTetromino EXCEPT !.y = @ + 1]
            /\ UNCHANGED <<board, score, lines, level>>
       ELSE LET stamped == stampTetromino(board, currentTetromino)
            IN  /\ locked' = locked + 1
                /\ \A cell \in filledCells(currentTetromino) :
                     stamped[cell[1]][cell[2]] = getTetrominoColorValue(currentTetromino.type)
                /\ board' = processLineClearing([Game EXCEPT !.board = stamped]).board
                /\ checkFullLines(stamped) = <<>> => board' = stamped
                /\ currentTetromino' # currentTetromino]_<<gameVars, call.op>>

\* an I piece has fallen to the floor and been locked there, and the next piece
\* stands at its spawn row
C28_Witness ==
  /\ call.op = "none"
  /\ locked = 1
  /\ \A c \in 4..7 : board[19][c] = 1
  /\ currentTetromino # NULL
  /\ currentTetromino.y = 0
  /\ ~gameOver

\* C33: a board cell changes only inside a lock (stamping, line clear and
\* compaction) or by reset(): update steps that only move the piece down,
\* spawnNewTetromino, togglePause, setGameOver, addScore, shouldDropTetromino, render
\* and the left/right moves leave every board cell unchanged.
C33_BoardWrites ==
  [][/\ board' # board => (locked' = locked + 1 \/ call'.op = "reset")
     /\ call'.op \in {"spawnNewTetromino", "togglePause", "addScore",
                      "shouldDropTetromino", "render"} => board' = board
     /\ moveLeft(Game).board = board
     /\ moveRight(Game).board = board]_<<gameVars, call.op>>

\* an O piece has been locked into the board, and the pause toggled after it has
\* left the board as the lock left it
C33_Witness ==
  /\ call.op = "togglePause"
  /\ paused
  /\ locked = 1
  /\ board[18][4] = 2
  /\ board[19][5] = 2
  /\ currentTetromino # NULL

\* ---------------------------------------------------------------------------
\* Properties of getDropInterval (SpecInterval)
\* ---------------------------------------------------------------------------

\* C9: at levels 3 and 4 getDropInterval returns 800 - 100 * (level - 2), that is
\* 700 ms at level 3 and 600 ms at level 4.
C9_LowInterpolation ==
  (call.op = "getDropInterval" /\ level \in {3, 4})
    => call.ret = 800 - (100 * (level - 2))

\* C10: getDropInterval returns 1000 for level <= 1, 800 for level 2, 500 for level 5,
\* 100 for every level >= 10, and 500 - 80 * (level - 5) for levels 6 to 9
\* (420, 340, 260, 180).
C10_Curve ==
  call.op = "getDropInterval" =>
    /\ level <= 1 => call.ret = 1000
    /\ level = 2 => call.ret = 800
    /\ level = 5 => call.ret = 500
    /\ level >= 10 => call.ret = 100
    /\ level \in 6..9 => call.ret = 500 - (80 * (level - 5))
    /\ level = 6 => call.ret = 420
    /\ level = 7 => call.ret = 340
    /\ level = 8 => call.ret = 260
    /\ level = 9 => call.ret = 180

\* getDropInterval has answered at a level of the upper interpolation
C10_Witness == call.op = "getDropInterval" /\ level = 9 /\ call.ret = 180

\* C11: getDropInterval is non-increasing in the level and strictly positive: for all
\* integer levels a <= b, getDropInterval(a) >= getDropInterval(b) > 0.
C11_Monotone ==
  call.op = "getDropInterval" =>
    /\ call.ret > 0
    /\ \A other \in Levels :
         /\ getDropInterval(other) > 0
         /\ other <= level => getDropInterval(other) >= call.ret
         /\ other >= level => getDropInterval(other) <= call.ret

\* getDropInterval has answered at a level where the curve steps down from the level
\* below and again to the level above
C11_Witness ==
  /\ call.op = "getDropInterval"
  /\ level = 6
  /\ call.ret < getDropInterval(level - 1)
  /\ call.ret > getDropInterval(level + 1)

\* ---------------------------------------------------------------------------
\* Properties of checkCollision (SpecCollision)
\* ---------------------------------------------------------------------------

\* C3: checkCollision returns true if and only if some filled cell of the shape has
\* its absolute column outside [0, width), or its absolute row >= height, or its
\* absolute row >= 0 over a non-zero cell of the board; cells at an absolute row < 0
\* are not compared with the board, and a null or empty shape returns false.
C3_CheckCollision ==
  call.op = "checkCollision" =>
    LET shape == input.shape
        filled == IF shape = NullShape THEN {}
                  ELSE {rc \in UNION {{<<row, col>> : col \in DOMAIN shape[row]} :
                                        row \in DOMAIN shape} :
                          shape[rc[1]][rc[2]] # 0}
        absRow(rc) == input.y + rc[1] + input.offsetY
        absCol(rc) == input.x + rc[2] + input.offsetX
        outside == {rc \in filled : \/ absCol(rc) \notin 0..(BOARD_WIDTH - 1)
                                    \/ absRow(rc) >= BOARD_HEIGHT}
        above == {rc \in filled \ outside : absRow(rc) < 0}
        occupied == {rc \in (filled \ outside) \ above :
                       board[absRow(rc)][absCol(rc)] # 0}
    IN  call.ret = (outside # {} \/ occupied # {})

\* a piece straddles the top of a board that has cells in its columns, and does not
\* collide
C3_Witness ==
  /\ call.op = "checkCollision"
  /\ call.ret = FALSE
  /\ input.shape = TETROMINOS["O"].shapes[0]
  /\ input.y + input.offsetY = -1
  /\ \E row \in 1..(BOARD_HEIGHT - 1) : board[row][input.x + input.offsetX + 1] # 0

\* ---------------------------------------------------------------------------
\* Properties of clearLines and dropLinesDown (SpecLines)
\* ---------------------------------------------------------------------------

\* C4: after clearLines(board, C) followed by dropLinesDown(board, C) the dimensions
\* of the board are unchanged, each row r not in C has its original contents at row
\* r + |{c in C : c > r}|, the top |C| rows are all zero, and with C empty the board
\* is unchanged.
C4_Compaction ==
  input.applied = <<"clearLines", "dropLinesDown">> =>
    LET C == {input.rows[i] : i \in 1..Len(input.rows)}
        before == input.board
    IN  /\ DOMAIN board = DOMAIN before
        /\ \A r \in DOMAIN board : DOMAIN board[r] = DOMAIN before[r]
        /\ \A r \in (DOMAIN before) \ C :
             board[r + Cardinality({c \in C : c > r})] = before[r]
        /\ \A r \in 0..(Cardinality(C) - 1) : \A col \in DOMAIN board[r] : board[r][col] = 0
        /\ C = {} => board = before

\* rows 17 and 19 have been cleared and compacted around the retained row 18
C4_Witness ==
  /\ input.applied = <<"clearLines", "dropLinesDown">>
  /\ {input.rows[i] : i \in 1..Len(input.rows)} = {17, 19}
  /\ \E col \in DOMAIN input.board[18] : input.board[18][col] # 0
  /\ board[19] = input.board[18]

\* C17: checkFullLines(board) returns, in ascending order and without duplicates,
\* exactly the indices of the rows in which every cell is non-zero (the empty list
\* when there is none), and does not modify the board.
C17_CheckFullLines ==
  call.op = "checkFullLines" =>
    LET fullLines == call.ret
    IN  /\ \A i, j \in 1..Len(fullLines) : i < j => fullLines[i] < fullLines[j]
        /\ {fullLines[i] : i \in 1..Len(fullLines)}
             = {row \in 0..(BOARD_HEIGHT - 1) :
                  \A col \in 0..(BOARD_WIDTH - 1) : board[row][col] # 0}
        /\ (\A row \in 0..(BOARD_HEIGHT - 1) :
              \E col \in 0..(BOARD_WIDTH - 1) : board[row][col] = 0)
             => fullLines = <<>>
        /\ input.applied = <<>> => board = input.board

\* two full rows that are not adjacent have been reported, lowest index first
C17_Witness ==
  /\ call.op = "checkFullLines"
  /\ call.ret = <<17, 19>>
  /\ \E col \in 0..(BOARD_WIDTH - 1) : board[18][col] = 0

\* C18: clearLines(board, rows) sets every cell of each listed row to 0 and leaves
\* every cell of every unlisted row unchanged (no row moves); the result does not
\* depend on the order of the list, and an empty list leaves the board unchanged.
C18_ClearLines ==
  input.applied = <<"clearLines">> =>
    LET listed == {input.rows[i] : i \in 1..Len(input.rows)}
        before == input.board
    IN  /\ DOMAIN board = DOMAIN before
        /\ \A row \in listed : board[row] = [col \in DOMAIN before[row] |-> 0]
        /\ \A row \in (DOMAIN before) \ listed : board[row] = before[row]
        /\ \A other \in LineLists :
             {other[i] : i \in 1..Len(other)} = listed => clearLines(before, other) = board
        /\ input.rows = <<>> => board = before

\* rows 19 and 17 have been cleared, listed in that order, and row 18 between them
\* is where and what it was
C18_Witness ==
  /\ input.applied = <<"clearLines">>
  /\ input.rows = <<19, 17>>
  /\ \E col \in DOMAIN board[18] : board[18][col] # 0
  /\ board[18] = input.board[18]
  /\ \A col \in DOMAIN board[17] : board[17][col] = 0 /\ input.board[17][col] # 0

\* ---------------------------------------------------------------------------
\* Properties of spawnNewTetromino (SpecSpawn)
\* ---------------------------------------------------------------------------

\* C5: spawnNewTetromino() creates a piece of one of the 7 types at rotation 0, x = 4,
\* y = 0 and checks it against the board: if it collides, gameOver becomes true, false
\* is returned and currentTetromino is left as it was; otherwise the piece becomes
\* currentTetromino, true is returned and gameOver is unchanged; the board is
\* unchanged in both cases.
C5_Spawn ==
  [][call'.op = "spawnNewTetromino" =>
       LET piece(t) == [type |-> t, shape |-> TETROMINOS[t].shapes[0],
                        color |-> TETROMINOS[t].color, x |-> 4, y |-> 0, rotation |-> 0]
           blocked(t) == \E row \in 0..1 : \E col \in 0..3 :
                           /\ row \in DOMAIN piece(t).shape
                           /\ col \in DOMAIN piece(t).shape[row]
                           /\ piece(t).shape[row][col] # 0
                           /\ board[row][4 + col] # 0
       IN  /\ board' = board
           /\ \/ /\ call'.ret = FALSE
                 /\ gameOver' = TRUE
                 /\ currentTetromino' = currentTetromino
                 /\ \E t \in Types : blocked(t)
              \/ /\ call'.ret = TRUE
                 /\ gameOver' = gameOver
                 /\ \E t \in Types : currentTetromino' = piece(t) /\ ~blocked(t)]_vars

\* a spawn has failed while an earlier piece was current: the piece is still there
C5_Witness ==
  /\ call.op = "spawnNewTetromino"
  /\ call.ret = FALSE
  /\ gameOver
  /\ currentTetromino # NULL

\* C6: if rows 0 and 1 of the board are fully occupied, spawnNewTetromino() sets
\* gameOver = true and installs no piece, whichever of the 7 types is selected.
C6_TopRowsFull ==
  [][( /\ call'.op = "spawnNewTetromino"
       /\ \A row \in 0..1 : \A col \in 0..(BOARD_WIDTH - 1) : board[row][col] # 0 )
     => ( /\ gameOver' = TRUE
          /\ currentTetromino' = currentTetromino
          /\ call'.ret = FALSE )]_vars

\* a spawn has failed on a board whose rows 0 and 1 are full
C6_Witness ==
  /\ call.op = "spawnNewTetromino"
  /\ call.ret = FALSE
  /\ gameOver
  /\ currentTetromino = NULL
  /\ \A row \in 0..1 : \A col \in 0..(BOARD_WIDTH - 1) : board[row][col] # 0

\* ---------------------------------------------------------------------------
\* Properties of calculateScore (SpecPoints)
\* ---------------------------------------------------------------------------

\* C12: calculateScore(n, l) = table(n) * l for n in 1..4 and l >= 1, with table =
\* {1: 100, 2: 300, 3: 500, 4: 800}, and 0 in every other case (n = 0, n < 0, n > 4 or
\* l <= 0).
C12_CalculateScore ==
  call.op = "calculateScore" =>
    LET n == input.linesCleared
        l == input.level
        table == (1 :> 100) @@ (2 :> 300) @@ (3 :> 500) @@ (4 :> 800)
    IN  /\ (n \in 1..4 /\ l >= 1) => call.ret = table[n] * l
        /\ (n = 0 \/ n < 0 \/ n > 4 \/ l <= 0) => call.ret = 0
        /\ (n = 4 /\ l = 2) => call.ret = 1600

\* a Tetris has been scored at level 2
C12_Witness ==
  /\ call.op = "calculateScore"
  /\ input.linesCleared = 4
  /\ input.level = 2
  /\ call.ret = 1600

\* ---------------------------------------------------------------------------
\* Properties of the game as the page runs it (SpecHost)
\* ---------------------------------------------------------------------------

\* C19: in every state reached through the operations of Game and the host's moves,
\* soft drops, pauses and restarts, the board is 20 rows by 10 columns and every cell
\* value is in 0..7.
C19_BoardShape ==
  /\ DOMAIN board = 0..19
  /\ \A row \in DOMAIN board :
       /\ DOMAIN board[row] = 0..9
       /\ \A col \in DOMAIN board[row] : board[row][col] \in 0..7

\* an L piece moved to the left wall has been locked there, in its colour 7
C19_Witness ==
  /\ locked = 1
  /\ board[19][0] = 7
  /\ currentTetromino # NULL

\* ---------------------------------------------------------------------------
\* Properties of render() on a failing renderer (SpecRender)
\* ---------------------------------------------------------------------------

\* C22: if a renderer call (clear, drawBoard, drawTetromino) raises an error, render()
\* returns normally without letting it out, no field of the game changes (the game
\* is neither paused nor ended by it), and a later update() proceeds as if the render
\* had succeeded.
C22_RenderSwallows ==
  [][(call'.op = "render" /\ call'.ret.caught) =>
       /\ call'.ret.thrown = FALSE
       /\ paused' = paused
       /\ gameOver' = gameOver
       /\ UNCHANGED gameVars
       /\ \A now \in Times : \A randomType \in Types :
            update(Game', now, randomType) = update(Game, now, randomType)]_<<gameVars, call.op>>

\* drawBoard has thrown while a piece that has begun to fall was on the board, and
\* the game goes on
C22_Witness ==
  /\ call.op = "render"
  /\ call.ret.caught
  /\ call.ret.calls = <<"clear", "drawBoard">>
  /\ currentTetromino # NULL
  /\ currentTetromino.y = 1
  /\ ~paused
  /\ ~gameOver

\* C27: in every state reachable by any interleaving of update ticks, left/right
\* moves, soft drops, pause toggles and restarts, the active piece (when present) is
\* collision-free: each of its filled cells lies in columns 0..9 and rows 0..19 over
\* a zero board cell.  Consequently every lock writes all four filled cells of the
\* piece, never over a non-zero cell, and discards none through the bounds check.
C27_CollisionFree ==
  [][/\ collisionFree(Game)
     /\ collisionFree(Game')
     /\ locked' = locked + 1 =>
          LET stamped == stampTetromino(board, currentTetromino)
              written == {cell \in (0..(BOARD_HEIGHT - 1)) \X (0..(BOARD_WIDTH - 1)) :
                            stamped[cell[1]][cell[2]] # board[cell[1]][cell[2]]}
          IN  /\ written = filledCells(currentTetromino)
              /\ Cardinality(written) = 4
              /\ \A cell \in written : board[cell[1]][cell[2]] = 0]_vars

\* an O piece moved to the left wall has been locked on the stack, and the I piece
\* that followed has been moved to the right wall
C27_Witness ==
  /\ locked = 1
  /\ board[17][0] = 2
  /\ board[18][1] = 2
  /\ board[19][0] = 3
  /\ currentTetromino.type = "I"
  /\ currentTetromino.x = 6
  /\ ~gameOver

\* the games the methods of Game leave when the handlers of the page call them on g:
\* update(), dropCurrentTetromino(), togglePause(), and reset() followed by
\* spawnNewTetromino()
calledOnGame(g) ==
  {update(g, now, randomType) : now \in Times, randomType \in Types}
    \cup {dropCurrentTetromino(g, randomType) : randomType \in Types}
    \cup {togglePause(g)}
    \cup {spawnNewTetromino(reset, randomType).game : randomType \in Types}

\* C24: only the Game writes the board and the current tetromino: every change of a
\* board cell or of the current tetromino's x, y, shape or presence is the effect of
\* methods of Game; the handlers of the page only read them.
C24_OnlyGameWrites ==
  [][(board' # board \/ currentTetromino' # currentTetromino) =>
       \E g \in calledOnGame(Game) :
         board' = g.board /\ currentTetromino' = g.currentTetromino]_vars

\* ---------------------------------------------------------------------------
\* Properties of the keys (SpecKeys)
\* ---------------------------------------------------------------------------

\* C23: after the game is over, pressing the R key restarts the game: the handler
\* performs reset() followed by spawnNewTetromino(), which leaves gameOver false, an
\* empty board and a fresh piece.
C23_RestartKey ==
  (input.code = "KeyR" /\ input.over) =>
    /\ ~gameOver
    /\ board = createEmptyBoard(BOARD_WIDTH, BOARD_HEIGHT)
    /\ currentTetromino \in {createTetromino(type) : type \in Types}

\* ---------------------------------------------------------------------------
\* Properties of tetromino.js (SpecTetromino)
\* ---------------------------------------------------------------------------

\* C25: every tetromino produced by createTetromino and any sequence of
\* moveTetromino and rotateTetromino calls has its rotation in 0..3 and the catalog
\* matrix TETROMINOS[type].shapes[rotation] as its shape; rotateTetromino sets the
\* rotation to (r+1) mod 4 for 'right' and (r+3) mod 4 for 'left', leaves type,
\* colour, x and y unchanged and does not modify its argument, so that right then
\* left, and four rights, return the original rotation and shape.
C25_Rotation ==
  currentTetromino.type \in Types =>
    /\ currentTetromino.rotation \in 0..3
    /\ currentTetromino.shape
         = TETROMINOS[currentTetromino.type].shapes[currentTetromino.rotation]
    /\ call.op = "rotateTetromino" =>
         /\ call.ret.tetromino = call.ret.given
         /\ call.ret.direction = "right"
              => currentTetromino.rotation = (call.ret.given.rotation + 1) % 4
         /\ call.ret.direction = "left"
              => currentTetromino.rotation = (call.ret.given.rotation + 3) % 4
         /\ currentTetromino.type = call.ret.given.type
         /\ currentTetromino.color = call.ret.given.color
         /\ currentTetromino.x = call.ret.given.x
         /\ currentTetromino.y = call.ret.given.y
    /\ LET right(t) == rotateTetromino(t, "right").newTetromino
           left(t) == rotateTetromino(t, "left").newTetromino
       IN  /\ left(right(currentTetromino)) = currentTetromino
           /\ right(right(right(right(currentTetromino)))) = currentTetromino

\* a T piece, moved off its spawn cell, has just been turned left from rotation 0 to 3
C25_Witness ==
  /\ call.op = "rotateTetromino"
  /\ call.ret.direction = "left"
  /\ call.ret.given.rotation = 0
  /\ currentTetromino.type = "T"
  /\ currentTetromino.rotation = 3
  /\ currentTetromino.x = 3
  /\ currentTetromino.y = 1

\* C26: createTetromino(type) never fails: for each of the 7 known types it returns
\* a tetromino of that type at rotation 0, x = 4, y = 0 with the catalog's rotation-0
\* shape and colour; for any unknown type it returns the same for the default type
\* 'I'.
C26_CreateTetromino ==
  call.op = "createTetromino" =>
    LET type == IF input.type \in Types THEN input.type ELSE "I"
    IN  call.ret = [type |-> type,
                    shape |-> TETROMINOS[type].shapes[0],
                    color |-> TETROMINOS[type].color,
                    x |-> 4,
                    y |-> 0,
                    rotation |-> 0]

\* ---------------------------------------------------------------------------
\* Properties of fixTetrominoToBoard and processLineClearing (SpecLock)
\* ---------------------------------------------------------------------------

\* C29: fixTetrominoToBoard() stamps every filled cell of the active piece with the
\* colour id of its type (I=1, O=2, T=3, S=4, Z=5, J=6, L=7), then runs line clearing
\* and compaction, then clears the active piece, then spawns the next piece: the
\* collision check of the spawn, and hence game over, is made on the board after
\* compaction, not on the board as stamped.
C29_FixOrder ==
  [][(call'.op = "fixTetrominoToBoard" /\ currentTetromino # NULL) =>
       LET id == CHOOSE i \in 1..Len(types) : types[i] = currentTetromino.type
           stamped == [r \in DOMAIN board |-> [c \in DOMAIN board[r] |->
                         IF <<r, c>> \in filledCells(currentTetromino) THEN id
                         ELSE board[r][c]]]
           cleared == processLineClearing([Game EXCEPT !.board = stamped,
                                                       !.locked = @ + 1])
           pieceless == [cleared EXCEPT !.currentTetromino = NULL]
       IN  \E randomType \in Types :
             LET spawned == [pieceless EXCEPT !.currentTetromino = createTetromino(randomType)]
             IN  IF collisionFree(spawned)
                 THEN Game' = spawned
                 ELSE Game' = [pieceless EXCEPT !.gameOver = TRUE]]_vars

\* an I piece has been locked at its spawn cell, where it completed row 1: the row
\* was cleared before the spawn, and the next piece stands where the stamped board
\* had no room for it
C29_Witness ==
  /\ call.op = "fixTetrominoToBoard"
  /\ locked = 1
  /\ lines \in {1, 10}
  /\ \A c \in 0..9 : board[0][c] = 0 /\ board[1][c] = 0
  /\ \A r \in 2..19 : board[r][4] = 2
  /\ currentTetromino # NULL
  /\ ~gameOver

\* C30: processLineClearing() with k >= 1 full rows clears and compacts them and adds
\* calculateScore(k, level) to score and k to lines, level being the level held
\* before these k lines are counted (a clear that takes lines from 9 to 10 is scored
\* with multiplier 1); with no full row it leaves the board, score, lines, level and
\* dropInterval unchanged.
C30_ProcessLineClearing ==
  [][call'.op = "processLineClearing" =>
       LET full == {r \in DOMAIN board : \A c \in DOMAIN board[r] : board[r][c] # 0}
           k == Cardinality(full)
       IN  IF k >= 1
           THEN /\ score' = score + calculateScore(k, level)
                /\ lines' = lines + k
                /\ (lines = 9 /\ k = 1) => score' = score + 100
                /\ \A r \in (DOMAIN board) \ full :
                     board'[r + Cardinality({f \in full : f > r})] = board[r]
                /\ \A r \in 0..(k - 1) : \A c \in DOMAIN board'[r] : board'[r][c] = 0
           ELSE UNCHANGED <<board, score, lines, level, dropInterval>>]_vars

\* the tenth line has been cleared at level 1 and scored 100; the game is at level 2
C30_Witness ==
  /\ call.op = "processLineClearing"
  /\ lines = 10
  /\ level = 2
  /\ score = 100
  /\ board[19][0] = 7

\* ---------------------------------------------------------------------------
\* Properties of update() under the clock (SpecClock)
\* ---------------------------------------------------------------------------

\* C31: a single update(currentTime) call while running either spawns or drops,
\* never both: with no active piece it only attempts a spawn (lastDropTime unchanged,
\* no drop); with an active piece it evaluates shouldDropTetromino once and moves the
\* piece down by at most one row, however large currentTime - lastDropTime is.
C31_UpdateOnce ==
  [][(input'.event \in {"update", "resumed update"} /\ ~paused /\ ~gameOver) =>
       IF currentTetromino = NULL
       THEN /\ lastDropTime' = lastDropTime
            /\ board' = board
            /\ locked' = locked
            /\ \/ currentTetromino' \in {createTetromino(type) : type \in Types}
               \/ currentTetromino' = NULL /\ gameOver'
       ELSE /\ lastDropTime' \in {lastDropTime, input'.now}
            /\ \/ UNCHANGED <<board, currentTetromino, locked, lastDropTime>>
               \/ /\ currentTetromino' = [currentTetromino EXCEPT !.y = @ + 1]
                  /\ UNCHANGED <<board, locked>>
                  /\ lastDropTime' = input'.now
               \/ /\ locked' = locked + 1
                  /\ board' = stampTetromino(board, currentTetromino)
                  /\ lastDropTime' = input'.now]_vars

\* the first drop of a piece was made three intervals after the clock started, and
\* took the piece one row down
C31_Witness ==
  /\ input.event = "update"
  /\ input.now = 3000
  /\ lastDropTime = 3000
  /\ currentTetromino # NULL
  /\ currentTetromino.y = 1
  /\ locked = 0

\* C38: pausing does not stop or shift the drop clock: lastDropTime is unchanged by
\* togglePause and by every update made while paused, so the first update(t) after
\* resuming drops the active piece at once whenever t - lastDropTime >= dropInterval;
\* and lastDropTime strictly increases each time it changes.
C38_PauseKeepsClock ==
  [][/\ input'.event \in {"pause", "resume"} => lastDropTime' = lastDropTime
     /\ (input'.event \in {"update", "resumed update"} /\ paused)
          => lastDropTime' = lastDropTime
     /\ (/\ input'.event = "resumed update"
         /\ ~gameOver
         /\ currentTetromino # NULL
         /\ input'.now - lastDropTime >= dropInterval)
          => /\ lastDropTime' = input'.now
             /\ \/ currentTetromino' = [currentTetromino EXCEPT !.y = @ + 1]
                \/ locked' = locked + 1
     /\ lastDropTime' # lastDropTime => lastDropTime' > lastDropTime]_vars

\* a piece that had fallen one row was held through a pause, and the first update
\* after the resume has taken it down a second row
C38_Witness ==
  /\ input.event = "resumed update"
  /\ currentTetromino # NULL
  /\ currentTetromino.y = 2
  /\ lastDropTime = input.now
  /\ input.now >= 3000
  /\ ~paused

\* ---------------------------------------------------------------------------
\* Properties of the play on a stack (SpecStack)
\* ---------------------------------------------------------------------------

\* C32: while paused, update(currentTime) for any currentTime leaves the board, the
\* current tetromino, score, lines, level, dropInterval, lastDropTime and gameOver
\* unchanged, and so do the move-left, move-right and soft-drop keys.
C32_PausedFrame ==
  paused =>
    LET kept(g) ==
          /\ g.board = board
          /\ g.currentTetromino = currentTetromino
          /\ g.score = score
          /\ g.lines = lines
          /\ g.level = level
          /\ g.dropInterval = dropInterval
          /\ g.lastDropTime = lastDropTime
          /\ g.gameOver = gameOver
    IN  \A randomType \in Types :
          /\ \A currentTime \in Times : kept(update(Game, currentTime, randomType))
          /\ \A code \in {"ArrowLeft", "ArrowRight", "ArrowDown"} :
               kept(handleKeyDown(Game, code, randomType))

\* the game is paused with a piece that has room to its left, to its right and
\* below, a drop interval after its last drop
C32_Witness ==
  /\ paused
  /\ ~gameOver
  /\ currentTetromino # NULL
  /\ currentTetromino.x = 3
  /\ currentTetromino.y >= 1
  /\ lastDropTime = 0
  /\ collisionFree([Game EXCEPT !.currentTetromino.x = @ - 1])
  /\ collisionFree([Game EXCEPT !.currentTetromino.x = @ + 1])
  /\ collisionFree([Game EXCEPT !.currentTetromino.y = @ + 1])

\* C34: in every game reached through update ticks, moves and soft drops, a single
\* lock clears between 0 and 4 rows, so that processLineClearing never calls
\* calculateScore with a count above 4, and every line clear awards strictly
\* positive points.
C34_LockClears ==
  [][locked' = locked + 1 =>
       LET stamped == stampTetromino(board, currentTetromino)
           k == Cardinality({r \in DOMAIN stamped :
                               \A c \in DOMAIN stamped[r] : stamped[r][c] # 0})
       IN  /\ k \in 0..4
           /\ lines' = lines + k
           /\ k = 0 => score' = score
           /\ k >= 1 =>
                /\ score' > score
                /\ score' = score + level * (CASE k = 1 -> 100 [] k = 2 -> 300
                                               [] k = 3 -> 500 [] k = 4 -> 800)]_vars

\* an O piece dropped into the well has cleared two rows at once, for 300 points
C34_Witness ==
  /\ locked = 5
  /\ lines = 2
  /\ score = 300
  /\ board = createEmptyBoard(BOARD_WIDTH, BOARD_HEIGHT)

\* C35: cell conservation: in every state reached through update ticks, moves, soft
\* drops and pause toggles, the number of non-zero board cells equals
\* 4 x (pieces locked since the last reset) - 10 x lines.
C35_CellConservation ==
  Cardinality({cell \in (DOMAIN board) \X (0..(BOARD_WIDTH - 1)) :
                 board[cell[1]][cell[2]] # 0})
    = 4 * locked - 10 * lines

\* the third piece, an I, has completed the bottom row: of the twelve cells locked,
\* two are left
C35_Witness ==
  /\ locked = 3
  /\ lines = 1
  /\ board[19][8] = 2
  /\ board[19][9] = 2
  /\ board[19][0] = 0
  /\ board[18][8] = 0

\* C36: between operations the board never contains a completely filled row: after
\* every update, soft drop or lock completes, checkFullLines(board) is empty.
C36_NoFullRow ==
  /\ checkFullLines(board) = <<>>
  /\ \A r \in DOMAIN board : \E c \in DOMAIN board[r] : board[r][c] = 0

\* a lock has completed two rows, and neither is on the board any more
C36_Witness ==
  /\ locked = 5
  /\ lines = 2
  /\ call.op = "none"
  /\ \A c \in 0..(BOARD_WIDTH - 1) : board[18][c] = 0 /\ board[19][c] = 0
  /\ currentTetromino # NULL

\* C37: after any lock completes, exactly one of the following holds: a freshly
\* spawned piece is active at x = 4, y = 0, rotation 0 and gameOver is unchanged, or
\* no piece is active and gameOver is true; in the game flow (update, moves, soft
\* drop) gameOver becomes true only through such a colliding spawn.
C37_AfterLock ==
  [][/\ locked' = locked + 1 =>
          \/ /\ currentTetromino' \in {createTetromino(type) : type \in Types}
             /\ currentTetromino'.x = 4
             /\ currentTetromino'.y = 0
             /\ currentTetromino'.rotation = 0
             /\ gameOver' = gameOver
             /\ collisionFree(Game')
          \/ /\ currentTetromino' = NULL
             /\ gameOver'
     /\ (gameOver' /\ ~gameOver) =>
          /\ currentTetromino' = NULL
          /\ \E type \in Types :
               ~collisionFree([Game' EXCEPT !.currentTetromino = createTetromino(type)])]_vars

\* the tenth piece has been locked at the top of the tower, where the piece after it
\* found no room: the game is over and no piece is active
C37_Witness ==
  /\ locked = 10
  /\ gameOver
  /\ currentTetromino = NULL
  /\ board[0][4] # 0 \/ board[1][4] # 0

\* ---------------------------------------------------------------------------
\* Properties of the fall (SpecFall)
\* ---------------------------------------------------------------------------

\* C39: liveness of the fall: if the game stays running and update is called again
\* and again with a growing currentTime, every active piece is eventually locked into
\* the board, after at most 20 one-row descents, whatever left and right moves are
\* made in between.
C39_FallEnds ==
  /\ [](currentTetromino # NULL => currentTetromino.y < BOARD_HEIGHT)
  /\ (currentTetromino # NULL /\ locked = 0) ~> (locked = 1)

\* a piece moved to the left wall has reached the floor and been locked there
C39_Witness ==
  /\ locked = 1
  /\ input.now >= 19000
  /\ board[19][0] # 0
  /\ board[19][4] = 0

\* ---------------------------------------------------------------------------
\* Properties of the game nobody plays (SpecIdle)
\* ---------------------------------------------------------------------------

\* C40: termination without input: from a fresh game, with update called again and
\* again with a growing currentTime and no move, pause or restart, the game is
\* eventually over whatever piece types are drawn, and lines and score stay 0: the
\* pieces dropped at the spawn column never complete a row.
C40_IdleEnds ==
  /\ <>gameOver
  /\ [](lines = 0 /\ score = 0 /\ ~paused)

\* the game is over with the stack up to the spawn rows and the side columns empty
C40_Witness ==
  /\ gameOver
  /\ locked >= 5
  /\ lines = 0
  /\ score = 0
  /\ \A row \in DOMAIN board : board[row][0] = 0 /\ board[row][9] = 0
  /\ \E col \in DOMAIN board[0] : board[0][col] # 0 \/ board[1][col] # 0

====
